---- MODULE Spec2Model ----
(***************************************************************************)
(* Poll coordinator, session state and snapshot store of the option-chain  *)
(* backend (src/pybackend): the background timer (scheduled_fetch) and the *)
(* request handlers (POST /api/process, POST /api/connect) running as       *)
(* threads over one SQLite store.  Every SQL statement that the sqlite3     *)
(* driver runs in its own implicit transaction is one atomic step: a SELECT *)
(* runs outside any transaction, the DML statements that follow it in the   *)
(* same db_cursor() block commit together.  The pure functions of           *)
(* calculator.py, fetch_with_retry, the custom-indicator handlers and the    *)
(* lock discipline of session.py are followed on their own, each under a    *)
(* specification of its own.                                                *)
(***************************************************************************)
EXTENDS Integers, Sequences, FiniteSets, TLC

(***************************************************************************)
(* Time.  The clock counts seconds from a Monday 00:00:00 UTC.  A           *)
(* "%Y-%m-%d" string is modelled by the day number, "%Y-%m-%dT%H:%M" by the *)
(* minute number and "%Y-%m-%dT%H:%M:%SZ" by the second number: the string  *)
(* order and the prefix test of the code are the integer order and the      *)
(* integer division.                                                        *)
(***************************************************************************)
SecPerHour == 60 * 60
SecPerDay == 24 * SecPerHour

\* timedelta(hours=5, minutes=30)
IST == 5 * SecPerHour + 30 * 60

\* the instant h:m:s UTC of day d (day 0 is a Monday)
At(d, h, m, s) == d * SecPerDay + h * SecPerHour + m * 60 + s

\* strftime("%Y-%m-%d") of a UTC instant
DateStr(t) == t \div SecPerDay

\* strftime("%Y-%m-%dT%H:%M") of a UTC instant
MinuteBucket(t) == t \div 60

\* timestamp[:16] of a stored "%Y-%m-%dT%H:%M:%SZ" string
BucketOfTs(ts) == ts \div 60

\* datetime.weekday(): Monday = 0 ... Sunday = 6
Weekday(t) == (t \div SecPerDay) % 7

HourOf(t) == (t % SecPerDay) \div SecPerHour
MinuteOf(t) == (t % SecPerHour) \div 60

\* _now_ist() for the UTC instant t
NowIst(t) == t + IST

\* _today_ist() without the offset: the UTC date
TodayUtc(t) == DateStr(t)

\* _today_ist() for the UTC instant t
TodayIst(t) == DateStr(t + IST)

MarketOpenHm == 9 * 60 + 14
MarketCloseHm == 15 * 60 + 31

\* _is_market_hours() with the closing minute left out
IsMarketHoursExclusive(t) ==
    LET now == NowIst(t)
        hm  == HourOf(now) * 60 + MinuteOf(now)
    IN  IF Weekday(now) >= 5 THEN FALSE
        ELSE MarketOpenHm <= hm /\ hm < MarketCloseHm

\* _is_market_hours() evaluated at the UTC instant t
IsMarketHours(t) ==
    LET now == NowIst(t)
        hm  == HourOf(now) * 60 + MinuteOf(now)
    IN  IF Weekday(now) >= 5 THEN FALSE
        ELSE MarketOpenHm <= hm /\ hm <= MarketCloseHm

(***************************************************************************)
(* The instants at which the clock is observed: both sides of every         *)
(* boundary the code tests (minute bucket, market open and close in IST,    *)
(* IST midnight = 18:30 UTC, UTC midnight, the weekend).                    *)
(***************************************************************************)
Instants ==
    { At(0, 3, 43, 59), At(0, 3, 44, 0),
      At(0, 10, 1, 59), At(0, 10, 2, 0),
      At(0, 18, 30, 0), At(0, 18, 30, 59), At(0, 18, 31, 0),
      At(5, 4, 15, 0) }

FirstInstant == CHOOSE i \in Instants : \A j \in Instants : i <= j

NextInstant(t) ==
    CHOOSE i \in Instants : i > t /\ \A j \in Instants : j > t => i <= j

(***************************************************************************)
(* Strings.  A string is a sequence of characters; Python's None is a       *)
(* value of its own.                                                        *)
(***************************************************************************)
None == <<"None">>

\* bool(s) of a string or None
Truthy(s) == s # None /\ s # <<>>

\* "s or None"
OrNone(s) == IF Truthy(s) THEN s ELSE None

\* 's or ""'
OrEmpty(s) == IF Truthy(s) THEN s ELSE <<>>

RECURSIVE LStrip(_)
LStrip(s) == IF s # <<>> /\ Head(s) = " " THEN LStrip(Tail(s)) ELSE s

RECURSIVE RStrip(_)
RStrip(s) ==
    IF s # <<>> /\ s[Len(s)] = " " THEN RStrip(SubSeq(s, 1, Len(s) - 1)) ELSE s

\* str.strip()
Strip(s) == RStrip(LStrip(s))

\* masked_token = f"...{token[-4:]}" if token and len(token) > 4 else "env"
MaskedToken(token) ==
    IF token # <<>> /\ Len(token) > 4
    THEN <<"...">> \o SubSeq(token, Len(token) - 3, Len(token))
    ELSE <<"env">>

\* source_identifier = f"upstox|Nifty 50|{expiry_date}|{masked_token}"
SourceIdentifier(expiry, token) ==
    <<"upstox|Nifty 50|">> \o expiry \o <<"|">> \o MaskedToken(token)

(***************************************************************************)
(* Request bodies: the token and expiry_date a client posts.  A key that is  *)
(* missing or null is None.                                                 *)
(***************************************************************************)
TokA == <<"a", "b", "c", "d", "1">>
TokShort == <<"a", "b", "c", "d">>
ExpA == <<"A">>
ExpB == <<"B">>

Bodies ==
    { [token |-> TokA,     expiry_date |-> <<" ", "A">>],
      [token |-> TokShort, expiry_date |-> ExpA],
      [token |-> <<>>,     expiry_date |-> ExpB],
      [token |-> TokA,     expiry_date |-> <<" ">>],
      [token |-> None,     expiry_date |-> None] }

(***************************************************************************)
(* Threads of control: the APScheduler job and the request handlers.        *)
(***************************************************************************)
Timer == "timer"
Requests == {"r1", "r2"}
Threads == {Timer} \cup Requests

\* The request threads are interchangeable: a request is served by r1 when
\* r1 is free, by r2 otherwise.
FreeThread(t, p) == t = "r1" \/ p["r1"] # "idle"

\* handler executions started in one behaviour
MaxRuns == 2

\* handler executions in flight at one time
MaxActive == 2

\* seconds a handler execution may last
MaxSpan == 120

VARIABLES
    clock,      \* datetime.now(timezone.utc), in seconds
    rows,       \* table snapshots: records [id, timestamp, date, fut]
    nextId,     \* the AUTOINCREMENT sequence of snapshots.id
    meta,       \* table metadata: current_url, session_token, session_expiry_date
    state,      \* session._state: token, expiry_date
    pc,         \* each thread's position in its handler
    loc,        \* each thread's local variables
    runs,       \* handler executions started so far
    retry,      \* the frame of a fetch_with_retry(fn) call followed on its own
    main,       \* the position of the "__main__" block
    sched_error, \* the log holds an "[ERROR] [SCHEDULER]" line
    calc,       \* the frame of a calculator.py call followed on its own
    custom,     \* table custom_indicators and the handler that last used it
    sess        \* session._lock and the calls of session.py followed on their own

vars ==
    <<clock, rows, nextId, meta, state, pc, loc, runs, retry, main, sched_error,
      calc, custom, sess>>

NoRes == [id |-> 0, timestamp |-> 0, date |-> 0, already_existed |-> FALSE]

NoLoc ==
    [ op          |-> "none",     \* "timer", "process" or "connect"
      body        |-> [token |-> None, expiry_date |-> None],
      token       |-> <<>>,
      expiry      |-> <<>>,
      cur         |-> <<>>,       \* current_url as read by the SELECT
      was_cleared |-> FALSE,      \* check_and_clear_for_url_change's result
      minute      |-> 0,          \* current_minute of process(); the minute
                                  \* in which the job fired
      old_cleared |-> FALSE,      \* check_and_clear_old_data's result
      now         |-> 0,          \* now of save_snapshot
      entry       |-> {},         \* the table as save_snapshot found it
      fut         |-> 0,          \* fut_ind merged into ind (0: no futures keys)
      res         |-> NoRes,      \* save_snapshot's result, or the cached row
      exc         |-> "none",     \* the exception the handler caught
      status      |-> "none" ]    \* how the handler ended

\* no fetch_with_retry call is being followed
NoRetry ==
    [ fn     |-> <<>>,       \* what the k-th call of fn() does
      i      |-> 0,          \* the loop variable
      pc     |-> "idle",     \* "call", "except", "returned" or "raised"
      calls  |-> 0,          \* calls of fn() made
      waits  |-> <<>>,       \* the arguments of time.sleep(), in order
      result |-> 0 ]         \* the call whose value or exception comes out

(***************************************************************************)
(* JSON values as json.loads() hands them to calculator.py.  A number is    *)
(* an integer n (the float that holds n exactly); kind "huge" is an integer *)
(* beyond the range of a float, such as 10 ** 400; kind "list" is a list    *)
(* and kind "dict" a mapping of n elements; kind "str" is a text, a         *)
(* sequence of characters; kind "missing" is a key that the mapping does    *)
(* not have.                                                                *)
(***************************************************************************)
Num(n) == [kind |-> "int", n |-> n, s |-> <<>>]
Text(s) == [kind |-> "str", n |-> 0, s |-> s]
ListOf(n) == [kind |-> "list", n |-> n, s |-> <<>>]
MapOf(n) == [kind |-> "dict", n |-> n, s |-> <<>>]
Null == [kind |-> "null", n |-> 0, s |-> <<>>]
Huge == [kind |-> "huge", n |-> 0, s |-> <<>>]
Missing == [kind |-> "missing", n |-> 0, s |-> <<>>]

\* the "market_data" mapping of one side of a strike
Md(oi, prev_oi, ltp, volume) ==
    [oi |-> oi, prev_oi |-> prev_oi, ltp |-> ltp, volume |-> volume]

\* row["call_options"]["market_data"]: kind "dict" when both keys hold a
\* mapping, "missing" when one of the keys is absent, "null" when one of them
\* holds null
Side(md) == [kind |-> "dict", md |-> md]
NoSide == [kind |-> "missing", md |-> Md(Missing, Missing, Missing, Missing)]
NullSide == [kind |-> "null", md |-> Md(Missing, Missing, Missing, Missing)]

\* one element of api_response["data"]
Row(spot, call, put) ==
    [underlying_spot_price |-> spot, call_options |-> call,
     put_options |-> put]

\* the accumulators of calculate_indicators before the loop
ZeroTotals ==
    [ total_ce_oi_value |-> 0,        total_pe_oi_value |-> 0,
      total_ce_oi_value_2 |-> 0,      total_pe_oi_value_2 |-> 0,
      total_ce_oi_change_value |-> 0, total_pe_oi_change_value |-> 0,
      total_ce_trade_value |-> 0,     total_pe_trade_value |-> 0,
      total_ce_oi |-> 0,  total_pe_oi |-> 0,
      total_ce_chg |-> 0, total_pe_chg |-> 0,
      total_ce_vol |-> 0, total_pe_vol |-> 0,
      underlying |-> 0 ]

\* a quotient of two floats, kept as the fraction in lowest terms
Whole(n) == [num |-> n, den |-> 1]

\* no call of calculator.py is being followed
NoCalc ==
    [ fn           |-> "none",   \* the function called
      pc           |-> "idle",   \* "loop", "derive", "returned" or "raised"
      val          |-> Missing,  \* _safe_float's val
      default      |-> 0,        \* _safe_float's default
      future_quote |-> [ltp |-> Missing, atp |-> Missing, oi |-> Missing,
                        volume |-> Missing, total_buy_qty |-> Missing,
                        total_sell_qty |-> Missing],
      api_response |-> [status |-> "missing", data |-> "missing",
                        rows |-> <<>>],
      i            |-> 0,        \* rows the loop has been through
      tot          |-> ZeroTotals,
      exc          |-> "none",   \* the exception that comes out
      ret          |-> 0,        \* _safe_float's value
      fut          |-> [fut_ltp |-> 0, fut_atp |-> 0, fut_oi |-> 0,
                        fut_volume |-> 0, fut_total_buy_qty |-> 0,
                        fut_total_sell_qty |-> 0, fut_oi_value_ltp |-> 0,
                        fut_oi_value_atp |-> 0, fut_trade_val_ltp |-> 0,
                        fut_trade_val_atp |-> 0],
      underlying       |-> 0,    \* the values of the returned dict
      nifty_price      |-> 0,
      diff_oi_value    |-> 0,
      ratio_oi_value   |-> Whole(0),
      diff_oi_value_2  |-> 0,
      ratio_oi_value_2 |-> Whole(0),
      diff_trade_value |-> 0,
      caller       |-> "none" ]  \* what the caller did with the outcome

\* table custom_indicators is empty and no handler has used it
NoCustom ==
    [ table  |-> {},         \* records [id, name, formula]
      seq    |-> 0,          \* sqlite_sequence: the greatest id ever given
      ops    |-> 0,          \* requests served
      op     |-> "none",     \* "create" or "remove", the last request
      body   |-> [name |-> None, formula |-> None],
      ind_id |-> 0,
      before |-> {},         \* the table as the last request found it
      status |-> "none",     \* the answer's status
      row    |-> [id |-> 0, name |-> <<>>, formula |-> <<>>],
      deleted |-> FALSE ]

\* the threads that call session.py: the job, the request handlers and
\* the "__main__" block
SessThreads == Threads \cup {"main"}

\* _lock is free and no call of session.py is being followed
NoSess ==
    [ lock   |-> "free",     \* "free", or the thread that holds _lock
      pc     |-> [t \in SessThreads |-> "idle"],
      token  |-> [t \in SessThreads |-> None],   \* set_session's arguments
      expiry |-> [t \in SessThreads |-> None],
      saved  |-> [t \in SessThreads |->          \* what a call has read
                    [token |-> None, expiry_date |-> None]],
      ready  |-> FALSE ]     \* what session_ready() last returned

\* the process has started on a new database, before any request
Started ==
    /\ clock = FirstInstant
    /\ rows = {}
    /\ nextId = 1
    /\ meta = [current_url |-> <<>>, session_token |-> <<>>,
               session_expiry_date |-> <<>>]
    /\ state = [token |-> None, expiry_date |-> None]
    /\ pc = [t \in Threads |-> "idle"]
    /\ loc = [t \in Threads |-> NoLoc]
    /\ runs = 0
    /\ main = "run"
    /\ sched_error = FALSE

Init ==
    /\ Started
    /\ retry = NoRetry
    /\ calc = NoCalc
    /\ custom = NoCustom
    /\ sess = NoSess

\* No handler is at its return.  The return of a handler touches nothing
\* that another thread reads, so it is taken as soon as the handler is done.
Settled == \A t \in Threads : pc[t] # "done"

\* time passes; a handler execution lasts at most MaxSpan seconds
Tick ==
    /\ Settled
    /\ \E i \in Instants : i > clock
    /\ \/ NextInstant(clock) - clock <= MaxSpan
       \/ \A t \in Threads : pc[t] = "idle"
    /\ clock' = NextInstant(clock)
    /\ UNCHANGED <<sess, calc, custom,
                     rows, nextId, meta, state, pc, loc, runs, retry, main, sched_error>>

Finish(t, l, st) ==
    /\ pc' = [pc EXCEPT ![t] = "done"]
    /\ loc' = [loc EXCEPT ![t] = [l EXCEPT !.status = st]]

Goto(t, l, label) ==
    /\ pc' = [pc EXCEPT ![t] = label]
    /\ loc' = [loc EXCEPT ![t] = l]

(***************************************************************************)
(* session.py                                                               *)
(***************************************************************************)
\* session_ready() testing for the empty string only
SessionReadyNotEmpty(st) == st.expiry_date # <<>>

\* session_ready() asking for a token as well
SessionReadyWithToken(st) == Truthy(st.expiry_date) /\ Truthy(st.token)

\* session_ready()
SessionReady(st) == Truthy(st.expiry_date)

\* set_session() keeping a session that is already set
SetStateOnce(token, expiry) ==
    IF state.expiry_date = None
    THEN [token |-> OrNone(token), expiry_date |-> OrNone(expiry)]
    ELSE state

\* set_session(), the part under _lock
SetState(token, expiry) ==
    [token |-> OrNone(token), expiry_date |-> OrNone(expiry)]

\* persist_session(token, expiry_date)
PersistSession(m, token, expiry) ==
    [m EXCEPT !.session_token = OrEmpty(token),
              !.session_expiry_date = OrEmpty(expiry)]

(***************************************************************************)
(* database.py                                                              *)
(***************************************************************************)
\* SELECT DISTINCT date FROM snapshots ORDER BY date DESC LIMIT 1
MaxDate(rs) == CHOOSE d \in {r.date : r \in rs} : \A r \in rs : r.date <= d

\* "if row and row['date'] != today" of check_and_clear_old_data
ShouldClearOld(rs, today) == rs # {} /\ MaxDate(rs) # today

\* the test without the comparison of the two identities
UrlChangedNoCompare(cur, new) == Truthy(cur)

\* the test without the check for a first call
UrlChangedNoFirstCall(cur, new) == cur # new

\* "if current_url and current_url != new_url"
UrlChanged(cur, new) == Truthy(cur) /\ cur # new

\* SELECT ... FROM snapshots WHERE timestamp LIKE minute_bucket || '%'
InBucket(rs, bucket) == {r \in rs : BucketOfTs(r.timestamp) = bucket}

\* fetchone() of that SELECT: the table is scanned in rowid order
FirstById(rs) == CHOOSE r \in rs : \A q \in rs : r.id <= q.id

\* SELECT ... FROM snapshots ORDER BY timestamp DESC LIMIT 1
Latest(rs) == {r \in rs : \A q \in rs : q.timestamp <= r.timestamp}

\* the cache test without the comparison of the minute
CacheHitAnyRow(latest, minute) == TRUE

\* the cache test that never finds the latest row current
CacheHitNever(latest, minute) == FALSE

\* "latest and latest['timestamp'][:16] == current_minute" of process()
CacheHit(latest, minute) == BucketOfTs(latest.timestamp) = minute

\* What the futures-quote block of process() does: get_current_nifty_future()
\* raises FileNotFoundError or Exception("No active NIFTY futures ..."), or
\* fetch_with_retry(fetch_nifty_future_quote) raises a vendor error or, after
\* 5 rate-limited attempts, RetryableError, or the quote is computed.
FutOutcomes == {"quote", "no_file", "no_contract", "vendor_error", "exhausted"}

\* the job running the futures-quote block as well
FutIndTimerToo(o) == IF o \in {"quote", "not_run"} THEN 1 ELSE 0

\* fut_ind after the block: 1 stands for the ten values computed from the
\* quote, 0 for the empty dict of the two except clauses
FutInd(o) == IF o = "quote" THEN 1 ELSE 0

\* the ten futures columns written without their default
FutColumnsNoDefault(ind) == 1

\* ind.get("fut_ltp", 0) ... ind.get("fut_trade_val_atp", 0): 0 stands for
\* ten zeros
FutColumns(ind) == IF ind = 0 THEN 0 ELSE ind

\* the row save_snapshot inserts at the instant now
NewRow(id, now, ind) ==
    [id |-> id, timestamp |-> now, date |-> DateStr(now),
     fut |-> FutColumns(ind)]

\* handler executions in flight
Active == Cardinality({t \in Threads : pc[t] # "idle"})

(***************************************************************************)
(* main.py: scheduled_fetch                                                 *)
(***************************************************************************)
\* the job fires, at second 0 of a minute or up to misfire_grace_time
\* later; "if not _is_market_hours(): return"
TimerGate(t) ==
    /\ Settled
    /\ main = "run"
    /\ t = Timer
    /\ pc[t] = "idle"
    /\ runs < MaxRuns
    /\ Active < MaxActive
    /\ runs' = runs + 1
    /\ LET l == [NoLoc EXCEPT !.op = "timer", !.minute = MinuteBucket(clock)]
       IN  IF IsMarketHours(clock)
           THEN Goto(t, l, "t_ready")
           ELSE Finish(t, l, "skip_hours")
    /\ UNCHANGED <<sess, calc, custom,
                     clock, rows, nextId, meta, state, retry, main, sched_error>>

\* "if not session_ready(): return", then sess = get_session().  Both read
\* session._state under the lock; no writer ever unsets expiry_date, so the
\* two reads are taken together.
TimerReady(t) ==
    /\ Settled
    /\ pc[t] = "t_ready"
    /\ IF SessionReady(state)
       THEN Goto(t, [loc[t] EXCEPT !.token = state.token,
                                   !.expiry = state.expiry_date], "fetch")
       ELSE Finish(t, loc[t], "skip_session")
    /\ UNCHANGED <<sess, calc, custom,
                     clock, rows, nextId, meta, state, runs, retry, main, sched_error>>

(***************************************************************************)
(* The vendor fetch and the aggregation: fetch_with_retry(...) followed by  *)
(* calculate_indicators(api_resp).  Neither touches the shared state; the   *)
(* vendor decides the outcome.                                              *)
(***************************************************************************)
\* "except ValueError" of process() comes before "except Exception"
IsValueError(exc) == exc \in {"bad_payload", "no_token"}

\* scheduled_fetch without its except clause: the exception leaves the job
Uncaught(t, exc) ==
    /\ Finish(t, [loc[t] EXCEPT !.exc = exc],
              IF loc[t].op = "timer" THEN "raised"
              ELSE IF loc[t].op = "process" /\ IsValueError(exc) THEN "400"
              ELSE "500")
    /\ sched_error' = sched_error

\* The exception exc reaches the handler's except clauses: scheduled_fetch
\* logs it (log_error("SCHEDULER", e)) and returns, process() answers 400 to
\* a ValueError and 500 to any other exception, connect() answers 500.
Caught(t, exc) ==
    /\ Finish(t, [loc[t] EXCEPT !.exc = exc],
              IF loc[t].op = "timer" THEN "error"
              ELSE IF loc[t].op = "process" /\ IsValueError(exc) THEN "400"
              ELSE "500")
    /\ sched_error' = (sched_error \/ loc[t].op = "timer")

\* every attempt fails with a vendor error (HTTP error, timeout, or HTTP
\* 429/503 five times): the exception of the last attempt propagates
FetchFail(t) ==
    /\ Settled
    /\ pc[t] = "fetch"
    /\ Caught(t, "vendor_error")
    /\ UNCHANGED <<sess, calc, custom,
                     clock, rows, nextId, meta, state, runs, retry, main>>

\* the payload is not a success payload: fetch_option_chain raises ValueError
\* on each attempt (status), or calculate_indicators does (status, data)
FetchBad(t) ==
    /\ Settled
    /\ pc[t] = "fetch"
    /\ Caught(t, "bad_payload")
    /\ UNCHANGED <<sess, calc, custom,
                     clock, rows, nextId, meta, state, runs, retry, main>>

\* no token came with the session and config.UPSTOX_ACCESS_TOKEN is not set:
\* fetch_option_chain raises ValueError on each attempt
FetchNoToken(t) ==
    /\ Settled
    /\ pc[t] = "fetch"
    /\ ~Truthy(loc[t].token)
    /\ Caught(t, "no_token")
    /\ UNCHANGED <<sess, calc, custom,
                     clock, rows, nextId, meta, state, runs, retry, main>>

\* The store is busy beyond busy_timeout when a write is attempted (the
\* DELETE of either check, the UPDATE of current_url, the INSERT):
\* sqlite3.OperationalError, the transaction is rolled back
StoreFail(t) ==
    /\ Settled
    /\ pc[t] \in {"u_write", "s_clear", "s_insert"}
    /\ Caught(t, "store_busy")
    /\ UNCHANGED <<sess, calc, custom,
                     clock, rows, nextId, meta, state, runs, retry, main>>

(***************************************************************************)
(* database.py: save_snapshot                                               *)
(***************************************************************************)
\* The fetch returns a success payload and the indicators are computed; in
\* process() the futures-quote block runs and ind.update(fut_ind);
\* save_snapshot(ind, api_resp) is called: check_and_clear_old_data() reads
\* today = _today_ist() and runs its SELECT.
SaveCheckOld(t) ==
    /\ Settled
    /\ pc[t] = "fetch"
    /\ \E o \in IF loc[t].op = "process" THEN FutOutcomes ELSE {"not_run"} :
          LET l == [loc[t] EXCEPT !.entry = rows, !.fut = FutInd(o)]
          IN  IF ShouldClearOld(rows, TodayIst(clock))
              THEN Goto(t, l, "s_clear")
              ELSE Goto(t, l, "s_now")
    /\ UNCHANGED <<sess, calc, custom,
                     clock, rows, nextId, meta, state, runs, retry, main, sched_error>>

\* check_and_clear_old_data(): DELETE FROM snapshots, committed
SaveClearOld(t) ==
    /\ Settled
    /\ pc[t] = "s_clear"
    /\ rows' = {}
    /\ Goto(t, [loc[t] EXCEPT !.old_cleared = TRUE], "s_now")
    /\ UNCHANGED <<sess, calc, custom,
                     clock, nextId, meta, state, runs, retry, main, sched_error>>

\* The result of check_and_clear_old_data() is dropped;
\* now = datetime.now(timezone.utc), the dedup SELECT on its minute bucket
\* and the return when a row exists.  The clock is read right before the
\* SELECT, and a row another thread commits between the two is in the
\* bucket only if it was committed in the same minute.
SaveLookup(t) ==
    /\ Settled
    /\ pc[t] = "s_now"
    /\ LET l     == [loc[t] EXCEPT !.now = clock, !.old_cleared = FALSE]
           found == InBucket(rows, MinuteBucket(l.now))
       IN  IF found # {}
           THEN LET e == FirstById(found)
                IN  Finish(t, [l EXCEPT !.res =
                                 [id |-> e.id, timestamp |-> e.timestamp,
                                  date |-> e.date, already_existed |-> TRUE]],
                           IF loc[t].op = "timer" THEN "dedup" ELSE "200")
           ELSE Goto(t, l, "s_insert")
    /\ UNCHANGED <<sess, calc, custom,
                     clock, rows, nextId, meta, state, runs, retry, main, sched_error>>

\* INSERT INTO snapshots, committed; the return
SaveInsert(t) ==
    /\ Settled
    /\ pc[t] = "s_insert"
    /\ LET r == NewRow(nextId, loc[t].now, loc[t].fut)
       IN  /\ rows' = rows \cup {r}
           /\ Finish(t, [loc[t] EXCEPT !.res =
                           [id |-> r.id, timestamp |-> r.timestamp,
                            date |-> r.date, already_existed |-> FALSE]],
                     IF loc[t].op = "timer" THEN "saved" ELSE "200")
    /\ nextId' = nextId + 1
    /\ UNCHANGED <<sess, calc, custom,
                     clock, meta, state, runs, retry, main, sched_error>>

(***************************************************************************)
(* routes/process.py and routes/connect.py                                  *)
(***************************************************************************)
\* the validation that lets every body through
NotExpiryNever(expiry) == FALSE

\* "if not expiry_date" of process() and connect()
NotExpiry(expiry) == ~Truthy(expiry)

\* POST /api/process: the body is read and validated, set_session() updates
\* session._state under the lock
ProcessStart(t, body) ==
    /\ Settled
    /\ main = "run"
    /\ t \in Requests
    /\ pc[t] = "idle"
    /\ FreeThread(t, pc)
    /\ runs < MaxRuns
    /\ Active < MaxActive
    /\ runs' = runs + 1
    /\ LET token  == Strip(OrEmpty(body.token))
           expiry == Strip(OrEmpty(body.expiry_date))
           l      == [NoLoc EXCEPT !.op = "process", !.body = body,
                                   !.token = token, !.expiry = expiry]
       IN  IF NotExpiry(expiry)
           THEN Finish(t, l, "400") /\ state' = state
           ELSE Goto(t, l, "persist") /\ state' = SetState(token, expiry)
    /\ UNCHANGED <<sess, calc, custom,
                     clock, rows, nextId, meta, retry, main, sched_error>>

\* POST /api/connect: the body is read and validated;
\* check_and_clear_for_url_change() runs its SELECT of current_url
ConnectStart(t, body) ==
    /\ Settled
    /\ main = "run"
    /\ t \in Requests
    /\ pc[t] = "idle"
    /\ FreeThread(t, pc)
    /\ runs < MaxRuns
    /\ Active < MaxActive
    /\ runs' = runs + 1
    /\ LET token  == Strip(OrEmpty(body.token))
           expiry == Strip(OrEmpty(body.expiry_date))
           l      == [NoLoc EXCEPT !.op = "connect", !.body = body,
                                   !.token = token, !.expiry = expiry]
       IN  IF NotExpiry(expiry)
           THEN Finish(t, l, "400")
           ELSE Goto(t, [l EXCEPT !.cur = meta.current_url], "u_write")
    /\ UNCHANGED <<sess, calc, custom,
                     clock, rows, nextId, meta, state, retry, main, sched_error>>

\* process(): check_and_clear_for_url_change() runs its SELECT of current_url
UrlSelect(t) ==
    /\ Settled
    /\ pc[t] = "u_select"
    /\ Goto(t, [loc[t] EXCEPT !.cur = meta.current_url], "u_write")
    /\ UNCHANGED <<sess, calc, custom,
                     clock, rows, nextId, meta, state, runs, retry, main, sched_error>>

\* check_and_clear_for_url_change(): the DELETE and the UPDATE, committed
UrlWrite(t) ==
    /\ Settled
    /\ pc[t] = "u_write"
    /\ LET new     == SourceIdentifier(loc[t].expiry, loc[t].token)
           changed == UrlChanged(loc[t].cur, new)
       IN  /\ rows' = IF changed THEN {} ELSE rows
           /\ meta' = [meta EXCEPT !.current_url = new]
           /\ Goto(t, [loc[t] EXCEPT !.was_cleared = changed],
                   IF loc[t].op = "connect" THEN "c_set" ELSE "p_minute")
    /\ UNCHANGED <<sess, calc, custom,
                     clock, nextId, state, runs, retry, main, sched_error>>

\* connect(): set_session() updates session._state under the lock
ConnectSet(t) ==
    /\ Settled
    /\ pc[t] = "c_set"
    /\ state' = SetState(loc[t].token, loc[t].expiry)
    /\ Goto(t, loc[t], "persist")
    /\ UNCHANGED <<sess, calc, custom,
                     clock, rows, nextId, meta, runs, retry, main, sched_error>>

\* set_session(): persist_session(token, expiry_date), outside the lock
Persist(t) ==
    /\ Settled
    /\ pc[t] = "persist"
    /\ meta' = PersistSession(meta, OrNone(loc[t].token), loc[t].expiry)
    /\ IF loc[t].op = "connect"
       THEN Finish(t, loc[t], "200")
       ELSE Goto(t, loc[t], "u_select")
    /\ UNCHANGED <<sess, calc, custom,
                     clock, rows, nextId, state, runs, retry, main, sched_error>>

\* set_session(): persist_session() raises (the store is busy);
\* "except Exception: pass"
PersistFail(t) ==
    /\ Settled
    /\ pc[t] = "persist"
    /\ IF loc[t].op = "connect"
       THEN Finish(t, loc[t], "200")
       ELSE Goto(t, loc[t], "u_select")
    /\ UNCHANGED <<sess, calc, custom,
                     clock, rows, nextId, meta, state, runs, retry, main, sched_error>>

\* process(): current_minute = datetime.now(timezone.utc).strftime(...); the
\* result of check_and_clear_for_url_change() has been dropped
ProcessMinute(t) ==
    /\ Settled
    /\ pc[t] = "p_minute"
    /\ Goto(t, [loc[t] EXCEPT !.minute = MinuteBucket(clock),
                              !.cur = <<>>, !.was_cleared = FALSE], "p_latest")
    /\ UNCHANGED <<sess, calc, custom,
                     clock, rows, nextId, meta, state, runs, retry, main, sched_error>>

\* process(): latest = get_latest_snapshot() and the cache test
ProcessLatest(t) ==
    /\ Settled
    /\ pc[t] = "p_latest"
    /\ \/ /\ \E latest \in Latest(rows) :
               /\ CacheHit(latest, loc[t].minute)
               /\ Finish(t, [loc[t] EXCEPT !.minute = 0, !.res =
                               [id |-> latest.id, timestamp |-> latest.timestamp,
                                date |-> latest.date, already_existed |-> TRUE]],
                         "cached")
       \/ /\ \A latest \in Latest(rows) : ~CacheHit(latest, loc[t].minute)
          /\ Goto(t, [loc[t] EXCEPT !.minute = 0], "fetch")
    /\ UNCHANGED <<sess, calc, custom,
                     clock, rows, nextId, meta, state, runs, retry, main, sched_error>>

\* the handler returns; its locals are gone
Return(t) ==
    /\ pc[t] = "done"
    /\ Goto(t, NoLoc, "idle")
    /\ UNCHANGED <<sess, calc, custom,
                     clock, rows, nextId, meta, state, runs, retry, main, sched_error>>

InSave(t) == pc[t] \in {"s_clear", "s_now", "s_insert"}

Step(t) ==
    \/ TimerGate(t)
    \/ TimerReady(t)
    \/ FetchFail(t)
    \/ FetchBad(t)
    \/ SaveCheckOld(t)
    \/ SaveClearOld(t)
    \/ SaveLookup(t)
    \/ SaveInsert(t)
    \/ \E body \in Bodies : ProcessStart(t, body)
    \/ \E body \in Bodies : ConnectStart(t, body)
    \/ UrlSelect(t)
    \/ UrlWrite(t)
    \/ ConnectSet(t)
    \/ Persist(t)
    \/ ProcessMinute(t)
    \/ ProcessLatest(t)
    \/ Return(t)

Next == Tick \/ \E t \in Threads : Step(t)

Spec == Init /\ [][Next]_vars

(***************************************************************************)
(* The same threads with save_snapshot run one call at a time: while a      *)
(* thread is inside save_snapshot no other thread takes a step.  The        *)
(* handlers still overlap outside it.                                       *)
(***************************************************************************)
NextSeq ==
    \/ Tick
    \/ \E t \in Threads :
          /\ \A u \in Threads \ {t} : ~InSave(u)
          /\ Step(t)

SpecSeq == Init /\ [][NextSeq]_vars

(***************************************************************************)
(* Faults and restarts.  The process is stopped and started again on the    *)
(* same database: every thread is gone, session._state is the module's      *)
(* initial value, and "__main__" runs init_db(), restore_session_from_db()  *)
(* and then starts the scheduler and the server.                            *)
(***************************************************************************)
\* load_persisted_session() returning the stored strings as they are
LoadPersistedRaw(m) ==
    [token |-> m.session_token, expiry_date |-> m.session_expiry_date]

\* load_persisted_session()
LoadPersisted(m) ==
    [token |-> OrNone(m.session_token),
     expiry_date |-> OrNone(m.session_expiry_date)]

\* the process dies and is started again; init_db() finds its tables
Restart ==
    /\ main = "run"
    /\ main' = "init"
    /\ state' = [token |-> None, expiry_date |-> None]
    /\ pc' = [t \in Threads |-> "idle"]
    /\ loc' = [t \in Threads |-> NoLoc]
    /\ UNCHANGED <<sess, calc, custom,
                     clock, rows, nextId, meta, runs, retry, sched_error>>

\* restored = restore_session_from_db()
Restore ==
    /\ main = "init"
    /\ LET saved == LoadPersisted(meta)
       IN  IF Truthy(saved.expiry_date)
           THEN state' = saved /\ main' = "restored"
           ELSE state' = state /\ main' = "no_session"
    /\ UNCHANGED <<sess, calc, custom,
                     clock, rows, nextId, meta, pc, loc, runs, retry, sched_error>>

\* _start_scheduler() and app.run(): the timer and the requests may start
Serve ==
    /\ main \in {"restored", "no_session"}
    /\ main' = "run"
    /\ UNCHANGED <<sess, calc, custom,
                     clock, rows, nextId, meta, state, pc, loc, runs, retry,
                   sched_error>>

\* a snapshot left in the database by an earlier run, three days before
OldRow ==
    [id |-> 1, timestamp |-> FirstInstant - 3 * SecPerDay,
     date |-> DateStr(FirstInstant - 3 * SecPerDay), fut |-> 0]

\* The process has started on the database of an earlier run, which holds
\* a session without a token, its source identity and a snapshot;
\* restore_session_from_db() has returned True.
Resumed ==
    /\ clock = FirstInstant
    /\ rows = {OldRow}
    /\ nextId = 2
    /\ meta = [current_url |-> SourceIdentifier(ExpB, <<>>),
               session_token |-> <<>>, session_expiry_date |-> ExpB]
    /\ state = LoadPersisted(meta)
    /\ pc = [t \in Threads |-> "idle"]
    /\ loc = [t \in Threads |-> NoLoc]
    /\ runs = 0
    /\ main = "run"
    /\ sched_error = FALSE

InitFaults ==
    /\ Started \/ Resumed
    /\ retry = NoRetry
    /\ calc = NoCalc
    /\ custom = NoCustom
    /\ sess = NoSess

\* the timer and one client that sends its requests one after the other
OneClient == {Timer, "r1"}

NextFaults ==
    \/ Tick
    \/ Restart
    \/ Restore
    \/ Serve
    \/ \E t \in OneClient :
          \/ Step(t)
          \/ FetchNoToken(t)
          \/ StoreFail(t)
          \/ PersistFail(t)

SpecFaults == InitFaults /\ [][NextFaults]_vars

(***************************************************************************)
(* main.py: fetch_with_retry(fn, retries=5), followed call by call.  What   *)
(* fn() does at each call is the input: it returns, or it raises an         *)
(* exception that may carry a retry_after attribute (RetryableError).       *)
(***************************************************************************)
Retries == 5

\* RetryableError carries int(Retry-After), 10 when the header is absent;
\* the vendor chooses the header
FnOutcomes ==
    { [raised |-> FALSE, has_hint |-> FALSE, retry_after |-> 0],
      [raised |-> TRUE,  has_hint |-> FALSE, retry_after |-> 0],
      [raised |-> TRUE,  has_hint |-> TRUE,  retry_after |-> 0],
      [raised |-> TRUE,  has_hint |-> TRUE,  retry_after |-> 10],
      [raised |-> TRUE,  has_hint |-> TRUE,  retry_after |-> 60] }

\* retry_after = getattr(e, 'retry_after', None)
\* wait = retry_after if retry_after else (2 ** i)
Wait(e, i) == IF e.has_hint /\ e.retry_after # 0 THEN e.retry_after ELSE 2 ^ i

\* "if i == retries - 1" one iteration too early
IsLastAttemptEarly(i) == i = Retries - 2

\* "if i == retries - 1"
IsLastAttempt(i) == i = Retries - 1

InitRetry ==
    /\ Started
    /\ calc = NoCalc
    /\ custom = NoCustom
    /\ sess = NoSess
    /\ \E f \in [1 .. Retries -> FnOutcomes] :
          retry = [NoRetry EXCEPT !.fn = f, !.pc = "call"]

\* "try: return fn()"
RetryCall ==
    /\ retry.pc = "call"
    /\ LET e == retry.fn[retry.i + 1]
       IN  retry' = [retry EXCEPT
                        !.calls = @ + 1,
                        !.pc = IF e.raised THEN "except" ELSE "returned",
                        !.result = IF e.raised THEN @ ELSE retry.i + 1]
    /\ UNCHANGED <<sess, calc, custom,
                     clock, rows, nextId, meta, state, pc, loc, runs, main,
                 sched_error>>

\* "except Exception as e": the wait is computed, then the exception is
\* raised again on the last attempt, and time.sleep(wait) runs on the others
RetryExcept ==
    /\ retry.pc = "except"
    /\ LET e    == retry.fn[retry.i + 1]
           wait == Wait(e, retry.i)
       IN  IF IsLastAttempt(retry.i)
           THEN retry' = [retry EXCEPT !.pc = "raised", !.result = retry.i + 1]
           ELSE retry' = [retry EXCEPT !.waits = Append(@, wait),
                                       !.i = @ + 1,
                                       !.pc = "call"]
    /\ UNCHANGED <<sess, calc, custom,
                     clock, rows, nextId, meta, state, pc, loc, runs, main,
                 sched_error>>

NextRetry == RetryCall \/ RetryExcept

SpecRetry == InitRetry /\ [][NextRetry]_vars

(***************************************************************************)
(* calculator.py, each function followed on its own.  A float is modelled   *)
(* by the integer it holds, a quotient of two floats by the fraction in     *)
(* lowest terms; inf, nan and rounding are left out.                        *)
(***************************************************************************)
\* dict.get(key, default)
Get(v, default) == IF v.kind = "missing" THEN default ELSE v

\* bool(v) is False: None, 0, "", [], {}
Falsy(v) ==
    \/ v.kind = "null"
    \/ v.kind = "int" /\ v.n = 0
    \/ v.kind = "str" /\ v.s = <<>>
    \/ v.kind \in {"list", "dict"} /\ v.n = 0

\* "v or 0"
OrZero(v) == IF Falsy(v) THEN Num(0) ELSE v

DigitVal(c) ==
    CASE c = "0" -> 0 [] c = "1" -> 1 [] c = "2" -> 2 [] c = "3" -> 3
      [] c = "4" -> 4 [] c = "5" -> 5 [] c = "6" -> 6 [] c = "7" -> 7
      [] c = "8" -> 8 [] c = "9" -> 9

IsDigit(c) == c \in {"0", "1", "2", "3", "4", "5", "6", "7", "8", "9"}

RECURSIVE DigitsValue(_)
DigitsValue(s) ==
    IF s = <<>> THEN 0
    ELSE 10 * DigitsValue(SubSeq(s, 1, Len(s) - 1)) + DigitVal(s[Len(s)])

\* float(s) of a text: the blanks around it are dropped, then an optional
\* sign and decimal digits are read; any other text is a ValueError
FloatOfText(s) ==
    LET t   == Strip(s)
        neg == t # <<>> /\ Head(t) = "-"
        u   == IF neg THEN Tail(t) ELSE t
    IN  IF u # <<>> /\ \A k \in 1 .. Len(u) : IsDigit(u[k])
        THEN [exc |-> "none",
              v |-> IF neg THEN 0 - DigitsValue(u) ELSE DigitsValue(u)]
        ELSE [exc |-> "ValueError", v |-> 0]

\* float(v): the value, or the exception float() raises
Float(v) ==
    CASE v.kind = "int"  -> [exc |-> "none", v |-> v.n]
      [] v.kind = "str"  -> FloatOfText(v.s)
      [] v.kind = "huge" -> [exc |-> "OverflowError", v |-> 0]
      [] OTHER           -> [exc |-> "TypeError", v |-> 0]

\* _safe_float(val, default): "except (TypeError, ValueError)"
SafeFloat(val, default) ==
    LET r == Float(val)
    IN  IF r.exc \in {"TypeError", "ValueError"}
        THEN [exc |-> "none", v |-> default]
        ELSE r

\* the exception of the first evaluation, in order, that raises one
RECURSIVE FirstExc(_)
FirstExc(rs) ==
    IF rs = <<>> THEN "none"
    ELSE IF Head(rs).exc # "none" THEN Head(rs).exc
    ELSE FirstExc(Tail(rs))

\* calculate_future_indicators(future_quote)
CalculateFutureIndicators(q) ==
    LET ltp    == Float(OrZero(Get(q.ltp, Num(0))))
        atp    == Float(OrZero(Get(q.atp, Num(0))))
        oi     == Float(OrZero(Get(q.oi, Num(0))))
        volume == Float(OrZero(Get(q.volume, Num(0))))
        buy_q  == Float(OrZero(Get(q.total_buy_qty, Num(0))))
        sell_q == Float(OrZero(Get(q.total_sell_qty, Num(0))))
    IN  [ exc |-> FirstExc(<<ltp, atp, oi, volume, buy_q, sell_q>>),
          fut |-> [ fut_ltp            |-> ltp.v,
                    fut_atp            |-> atp.v,
                    fut_oi             |-> oi.v,
                    fut_volume         |-> volume.v,
                    fut_total_buy_qty  |-> buy_q.v,
                    fut_total_sell_qty |-> sell_q.v,
                    fut_oi_value_ltp   |-> oi.v * ltp.v,
                    fut_oi_value_atp   |-> oi.v * atp.v,
                    fut_trade_val_ltp  |-> volume.v * ltp.v,
                    fut_trade_val_atp  |-> volume.v * atp.v ] ]

\* "call_md.get(...)" four times through _safe_float; a null in place of
\* the mapping makes .get an AttributeError
SideValues(side) ==
    LET oi      == SafeFloat(Get(side.md.oi, Num(0)), 0)
        prev_oi == SafeFloat(Get(side.md.prev_oi, Num(0)), 0)
        ltp     == SafeFloat(Get(side.md.ltp, Num(0)), 0)
        vol     == SafeFloat(Get(side.md.volume, Num(0)), 0)
    IN  [ exc |-> IF side.kind = "null" THEN "AttributeError"
                  ELSE FirstExc(<<oi, prev_oi, ltp, vol>>),
          oi |-> oi.v, prev_oi |-> prev_oi.v, ltp |-> ltp.v, vol |-> vol.v ]

\* the volume test that lets a side without volume through
VolumeFilterNotNegative(vol) == vol >= 0

\* "if ce_vol > 0", "if pe_vol > 0"
VolumeFilter(vol) == vol > 0

\* the change of open interest taken the wrong way round
OiChangeReversed(oi, prev_oi) == prev_oi - oi

\* ce_oi_change = ce_oi - ce_prev_oi
OiChange(oi, prev_oi) == oi - prev_oi

\* the spot price of every row taken, the last one winning
UnderlyingLastWins(underlying, spot) ==
    IF spot # 0 THEN spot ELSE underlying

\* "if spot and not underlying: underlying = spot"
Underlying(underlying, spot) ==
    IF spot # 0 /\ underlying = 0 THEN spot ELSE underlying

\* the accumulator statements of one pass, given the row's spot price and
\* the four values of its call side and of its put side
AddRow(tot, spot, ce, pe) ==
    LET ce_oi_change == OiChange(ce.oi, ce.prev_oi)
        pe_oi_change == OiChange(pe.oi, pe.prev_oi)
    IN  [ underlying |-> Underlying(tot.underlying, spot.v),
          total_ce_oi  |-> tot.total_ce_oi + ce.oi,
          total_ce_chg |-> tot.total_ce_chg + ce_oi_change,
          total_ce_vol |-> tot.total_ce_vol + ce.vol,
          total_ce_oi_value |-> tot.total_ce_oi_value + ce.oi * ce.ltp,
          total_ce_oi_value_2 |->
              IF VolumeFilter(ce.vol)
              THEN tot.total_ce_oi_value_2 + ce.oi * ce.ltp
              ELSE tot.total_ce_oi_value_2,
          total_ce_oi_change_value |->
              tot.total_ce_oi_change_value + ce_oi_change * ce.ltp,
          total_ce_trade_value |->
              tot.total_ce_trade_value + ce.vol * ce.ltp,
          total_pe_oi  |-> tot.total_pe_oi + pe.oi,
          total_pe_chg |-> tot.total_pe_chg + pe_oi_change,
          total_pe_vol |-> tot.total_pe_vol + pe.vol,
          total_pe_oi_value |-> tot.total_pe_oi_value + pe.oi * pe.ltp,
          total_pe_oi_value_2 |->
              IF VolumeFilter(pe.vol)
              THEN tot.total_pe_oi_value_2 + pe.oi * pe.ltp
              ELSE tot.total_pe_oi_value_2,
          total_pe_oi_change_value |->
              tot.total_pe_oi_change_value + pe_oi_change * pe.ltp,
          total_pe_trade_value |->
              tot.total_pe_trade_value + pe.vol * pe.ltp ]

\* the exception of a pass: the spot price is read first, then the call
\* side, then the put side
RowExc(spot, ce, pe) ==
    IF spot.exc # "none" THEN spot.exc
    ELSE IF ce.exc # "none" THEN ce.exc
    ELSE pe.exc

\* the outcome of a pass from the values read from the row
RowOutcome(tot, spot, ce, pe) ==
    [exc |-> RowExc(spot, ce, pe), tot |-> AddRow(tot, spot, ce, pe)]

\* one pass of "for row in rows": the accumulators after the row, or the
\* exception that ends the loop
AccumulateRow(tot, row) ==
    RowOutcome(tot,
               SafeFloat(Get(row.underlying_spot_price, Num(0)), 0),
               SideValues(row.call_options),
               SideValues(row.put_options))

Abs(n) == IF n < 0 THEN 0 - n ELSE n

RECURSIVE Gcd(_, _)
Gcd(a, b) == IF b = 0 THEN a ELSE Gcd(b, a % b)

\* a / b for b # 0
Frac(a, b) ==
    LET g == Gcd(Abs(a), Abs(b))
        sg == IF b < 0 THEN 0 - 1 ELSE 1
    IN  [num |-> sg * (a \div g), den |-> sg * (b \div g)]

\* the ratio guarded by the call total instead of the put total
RatioGuardedByCall(ce, pe) ==
    IF ce # 0 THEN [num |-> ce, den |-> pe] ELSE Whole(0)

\* total_ce / total_pe if total_pe != 0 else 0.0
Ratio(ce, pe) == IF pe # 0 THEN Frac(ce, pe) ELSE Whole(0)

\* what the k-th element of api_response["data"] may be
CallSides ==
    { Side(Md(Num(100), Num(90), Num(10), Missing)),
      Side(Md(Num(50), Num(50), Num(8), Missing)),
      Side(Md(Text(<<"1", "2">>), Null, Num(2), Num(5))),
      Side(Md(Num(3), Num(1), Num(2), Num(0))),
      NullSide }

PutSides ==
    { Side(Md(Num(40), Num(50), Num(12), Missing)),
      Side(Md(Num(60), Num(60), Num(9), Missing)),
      Side(Md(Num(4), Num(6), Num(3), Num(7))),
      NoSide,
      Side(Md(Huge, Num(1), Num(1), Num(1))) }

OptionRows ==
    { Row(Missing, c, p) : c \in CallSides, p \in PutSides }
    \cup { Row(Num(5), NoSide, NoSide), Row(Num(9), NoSide, NoSide),
           Row(Text(<<"x">>), NoSide, NoSide), Row(Huge, NoSide, NoSide) }

\* rows of one vendor payload
MaxRows == 2

\* the payloads: a status that is "success", another text or absent, and
\* a "data" that is a list of rows, absent, null, a mapping or a text
ApiResponses ==
    { [status |-> st, data |-> d, rows |-> <<>>] :
          st \in {"success", "error", "missing"},
          d \in {"list", "missing", "null", "dict", "str"} }
    \cup { [status |-> "success", data |-> "list", rows |-> rs] :
              rs \in UNION {[1 .. n -> OptionRows] : n \in 1 .. MaxRows} }

FutureQuotes ==
    [ ltp            : {Missing, Null, Num(2), Text(<<"3">>), Text(<<"x">>),
                        ListOf(0)},
      atp            : {Missing, Num(4), MapOf(1)},
      oi             : {Num(5), Null, ListOf(1)},
      volume         : {Num(0), Num(6), Text(<<>>)},
      total_buy_qty  : {Missing, Num(1)},
      total_sell_qty : {Missing, Text(<<" ", "7">>)} ]

SafeFloatVals ==
    { Null, Num(0), Num(7), Num(0 - 3), Huge, ListOf(0), ListOf(2),
      MapOf(0), MapOf(1),
      Text(<<>>), Text(<<"x">>), Text(<<"1", "x">>), Text(<<"1", "2">>),
      Text(<<" ", "4", " ">>), Text(<<"-", "5">>), Text(<<"-">>) }

CalcCalls ==
    { [NoCalc EXCEPT !.fn = "_safe_float", !.pc = "call",
                     !.val = v, !.default = d] :
          v \in SafeFloatVals, d \in {0, 0 - 1} }
    \cup { [NoCalc EXCEPT !.fn = "calculate_future_indicators",
                          !.pc = "call", !.future_quote = q] :
              q \in FutureQuotes }
    \cup { [NoCalc EXCEPT !.fn = "calculate_indicators", !.pc = "call",
                          !.api_response = a] :
              a \in ApiResponses }

InitCalc ==
    /\ Started
    /\ retry = NoRetry
    /\ custom = NoCustom
    /\ sess = NoSess
    /\ calc \in CalcCalls

\* _safe_float(val, default) runs
SafeFloatCall ==
    /\ calc.fn = "_safe_float"
    /\ calc.pc = "call"
    /\ LET r == SafeFloat(calc.val, calc.default)
       IN  calc' = [calc EXCEPT
                       !.pc = IF r.exc = "none" THEN "returned" ELSE "raised",
                       !.exc = r.exc,
                       !.ret = r.v]
    /\ UNCHANGED <<sess, clock, rows, nextId, meta, state, pc, loc, runs, retry,
                   main, sched_error, custom>>

\* calculate_future_indicators(future_quote) runs
FutureCall ==
    /\ calc.fn = "calculate_future_indicators"
    /\ calc.pc = "call"
    /\ LET r == CalculateFutureIndicators(calc.future_quote)
       IN  calc' = IF r.exc = "none"
                   THEN [calc EXCEPT !.pc = "returned", !.fut = r.fut]
                   ELSE [calc EXCEPT !.pc = "raised", !.exc = r.exc]
    /\ UNCHANGED <<sess, clock, rows, nextId, meta, state, pc, loc, runs, retry,
                   main, sched_error, custom>>

\* calculate_indicators(api_response): the two checks before the loop
CalcEnter ==
    /\ calc.fn = "calculate_indicators"
    /\ calc.pc = "call"
    /\ calc' = IF calc.api_response.status # "success"
               THEN [calc EXCEPT !.pc = "raised", !.exc = "ValueError"]
               ELSE IF calc.api_response.data \notin {"list", "missing"}
               THEN [calc EXCEPT !.pc = "raised", !.exc = "ValueError"]
               ELSE [calc EXCEPT !.pc = "loop"]
    /\ UNCHANGED <<sess, clock, rows, nextId, meta, state, pc, loc, runs, retry,
                   main, sched_error, custom>>

\* one pass of "for row in rows"
CalcRow ==
    /\ calc.pc = "loop"
    /\ calc.i < Len(calc.api_response.rows)
    /\ LET r == AccumulateRow(calc.tot, calc.api_response.rows[calc.i + 1])
       IN  calc' = IF r.exc = "none"
                   THEN [calc EXCEPT !.i = @ + 1, !.tot = r.tot]
                   ELSE [calc EXCEPT !.pc = "raised", !.exc = r.exc]
    /\ UNCHANGED <<sess, clock, rows, nextId, meta, state, pc, loc, runs, retry,
                   main, sched_error, custom>>

\* the loop is over: the derived indicators and the return
CalcDerive ==
    /\ calc.pc = "loop"
    /\ calc.i = Len(calc.api_response.rows)
    /\ LET t == calc.tot
       IN  calc' = [calc EXCEPT
              !.pc = "returned",
              !.underlying = t.underlying,
              !.nifty_price = t.underlying,
              !.diff_oi_value = t.total_ce_oi_value - t.total_pe_oi_value,
              !.diff_oi_value_2 =
                  t.total_ce_oi_value_2 - t.total_pe_oi_value_2,
              !.ratio_oi_value =
                  Ratio(t.total_ce_oi_value, t.total_pe_oi_value),
              !.ratio_oi_value_2 =
                  Ratio(t.total_ce_oi_value_2, t.total_pe_oi_value_2),
              !.diff_trade_value =
                  t.total_ce_trade_value - t.total_pe_trade_value]
    /\ UNCHANGED <<sess, clock, rows, nextId, meta, state, pc, loc, runs, retry,
                   main, sched_error, custom>>

\* scheduled_fetch after "ind = calculate_indicators(api_resp)":
\* save_snapshot(ind, api_resp) runs, with no other thread about
CallerSave ==
    /\ calc.fn = "calculate_indicators"
    /\ calc.pc = "returned"
    /\ calc.caller = "none"
    /\ LET kept == IF ShouldClearOld(rows, TodayIst(clock)) THEN {} ELSE rows
       IN  IF InBucket(kept, MinuteBucket(clock)) # {}
           THEN /\ rows' = kept
                /\ nextId' = nextId
                /\ calc' = [calc EXCEPT !.caller = "dedup"]
           ELSE /\ rows' = kept \cup {NewRow(nextId, clock, 0)}
                /\ nextId' = nextId + 1
                /\ calc' = [calc EXCEPT !.caller = "saved"]
    /\ UNCHANGED <<sess, clock, meta, state, pc, loc, runs, retry, main,
                   sched_error, custom>>

\* scheduled_fetch when calculate_indicators raises: "except Exception",
\* log_error("SCHEDULER", e)
CallerExcept ==
    /\ calc.fn = "calculate_indicators"
    /\ calc.pc = "raised"
    /\ calc.caller = "none"
    /\ calc' = [calc EXCEPT !.caller = "error"]
    /\ sched_error' = TRUE
    /\ UNCHANGED <<sess, clock, rows, nextId, meta, state, pc, loc, runs, retry,
                   main, custom>>

NextCalc ==
    \/ SafeFloatCall
    \/ FutureCall
    \/ CalcEnter
    \/ CalcRow
    \/ CalcDerive
    \/ CallerSave
    \/ CallerExcept

SpecCalc == InitCalc /\ [][NextCalc]_vars

(***************************************************************************)
(* Custom indicators: routes/custom_indicators.py over table               *)
(* custom_indicators (id INTEGER PRIMARY KEY AUTOINCREMENT, name TEXT NOT   *)
(* NULL UNIQUE, formula).  Each handler runs its statements in one          *)
(* db_cursor() block that starts with a write, so a handler is one step.    *)
(***************************************************************************)
\* the rows named n
Named(table, n) == {r \in table : r.name = n}

\* INSERT OR REPLACE in place of the upsert: the row in conflict is deleted
\* and a new one inserted
UpsertReplace(table, seq, name, formula) ==
    [ table |-> (table \ Named(table, Strip(name)))
                   \cup {[id |-> seq + 1, name |-> Strip(name),
                          formula |-> Strip(formula)]},
      seq   |-> seq + 1 ]

\* INSERT INTO custom_indicators (name, formula) VALUES (?, ?)
\* ON CONFLICT(name) DO UPDATE SET formula = excluded.formula
\* with (name.strip(), formula.strip()).  SQLite draws the next id of the
\* AUTOINCREMENT sequence before it finds the conflict, so the sequence
\* advances in both cases.
Upsert(table, seq, name, formula) ==
    LET n   == Strip(name)
        hit == Named(table, n)
    IN  [ table |-> IF hit # {}
                    THEN (table \ hit)
                            \cup {[r EXCEPT !.formula = Strip(formula)] :
                                     r \in hit}
                    ELSE table \cup {[id |-> seq + 1, name |-> n,
                                      formula |-> Strip(formula)]},
          seq   |-> seq + 1 ]

\* SELECT id, name, formula FROM custom_indicators WHERE name = ?
SelectByName(table, name) == CHOOSE r \in table : r.name = Strip(name)

\* DELETE FROM custom_indicators WHERE id = ?
DeleteById(table, ind_id) == {r \in table : r.id # ind_id}

\* cur.rowcount > 0 after that DELETE
RowCountPositive(table, ind_id) == \E r \in table : r.id = ind_id

\* the bodies of POST /api/custom-indicators
IndicatorBodies ==
    [ name    : {None, <<"a">>, <<" ", "a", " ">>, <<"b">>, <<" ">>},
      formula : {None, <<"x">>, <<"y", " ">>} ]

\* requests to /api/custom-indicators in one behaviour
MaxOps == 3

\* the ids a DELETE request may name
IndicatorIds == 0 .. MaxOps + 1

\* POST /api/custom-indicators: create_indicator(); the store may be busy
\* beyond busy_timeout, which ends the request with 500
CreateIndicator(body, busy) ==
    /\ custom.ops < MaxOps
    /\ LET name    == Strip(OrEmpty(body.name))
           formula == Strip(OrEmpty(body.formula))
           c       == [custom EXCEPT !.ops = @ + 1, !.op = "create",
                                     !.body = body, !.ind_id = 0,
                                     !.before = custom.table,
                                     !.row = NoCustom.row,
                                     !.deleted = FALSE]
       IN  IF ~Truthy(name) \/ ~Truthy(formula)
           THEN custom' = [c EXCEPT !.status = "400"]
           ELSE IF busy
           THEN custom' = [c EXCEPT !.status = "500"]
           ELSE LET u == Upsert(custom.table, custom.seq, name, formula)
                IN  custom' = [c EXCEPT !.status = "200",
                                        !.table = u.table,
                                        !.seq = u.seq,
                                        !.row = SelectByName(u.table, name)]
    /\ UNCHANGED <<sess, clock, rows, nextId, meta, state, pc, loc, runs, retry,
                   main, sched_error, calc>>

\* DELETE /api/custom-indicators/<int:ind_id>: remove_indicator()
RemoveIndicator(ind_id, busy) ==
    /\ custom.ops < MaxOps
    /\ LET c == [custom EXCEPT !.ops = @ + 1, !.op = "remove",
                               !.body = NoCustom.body, !.ind_id = ind_id,
                               !.before = custom.table,
                               !.row = NoCustom.row, !.deleted = FALSE]
       IN  IF busy
           THEN custom' = [c EXCEPT !.status = "500"]
           ELSE custom' = [c EXCEPT
                              !.status = "200",
                              !.table = DeleteById(custom.table, ind_id),
                              !.deleted =
                                  RowCountPositive(custom.table, ind_id)]
    /\ UNCHANGED <<sess, clock, rows, nextId, meta, state, pc, loc, runs, retry,
                   main, sched_error, calc>>

NextCustom ==
    \/ \E body \in IndicatorBodies, busy \in BOOLEAN :
          CreateIndicator(body, busy)
    \/ \E ind_id \in IndicatorIds, busy \in BOOLEAN :
          RemoveIndicator(ind_id, busy)

SpecCustom == Init /\ [][NextCustom]_vars

(***************************************************************************)
(* session.py, statement by statement: _lock, the calls of set_session by   *)
(* the request handlers, of session_ready and get_session by the job, and   *)
(* of restore_session_from_db by "__main__" before the scheduler and the    *)
(* server are started.  "with _lock:" blocks until the lock is free.        *)
(***************************************************************************)
\* the arguments connect() and process() give to set_session: a token or
\* None, and an expiry date that is not empty
SessionArgs ==
    { [token |-> TokA, expiry_date |-> ExpA],
      [token |-> None, expiry_date |-> ExpB] }

\* the with block of set_session reaching to the end of persist_session
InWithPersist(label) ==
    label \in {"set_locked", "set_persist", "ready_locked", "get_locked",
               "restore_locked"}

\* the statements inside a "with _lock:" block
InWith(label) ==
    label \in {"set_locked", "ready_locked", "get_locked", "restore_locked"}

\* thread t goes on to label: on entering a with block it holds _lock, on
\* leaving it the lock is free
SessGoto(s, t, label) ==
    [s EXCEPT !.pc[t] = label,
              !.lock = IF InWith(label) THEN t
                       ELSE IF s.lock = t THEN "free" ELSE s.lock]

\* "__main__" has run init_db() and calls restore_session_from_db()
InitSession ==
    /\ Started
    /\ retry = NoRetry
    /\ calc = NoCalc
    /\ custom = NoCustom
    /\ sess = [NoSess EXCEPT !.pc["main"] = "restore_load"]

\* a request handler calls set_session(token, expiry_date)
SetSessionCall(t, a) ==
    /\ t \in Requests
    /\ sess.pc["main"] = "serving"
    /\ sess.pc[t] = "idle"
    /\ sess' = SessGoto([sess EXCEPT !.token[t] = a.token,
                                     !.expiry[t] = a.expiry_date],
                        t, "set_enter")
    /\ UNCHANGED <<clock, rows, nextId, meta, state, pc, loc, runs, retry,
                   main, sched_error, calc, custom>>

\* scheduled_fetch calls session_ready()
SessionReadyCall(t) ==
    /\ t = Timer
    /\ sess.pc["main"] = "serving"
    /\ sess.pc[t] = "idle"
    /\ sess' = SessGoto(sess, t, "ready_enter")
    /\ UNCHANGED <<clock, rows, nextId, meta, state, pc, loc, runs, retry,
                   main, sched_error, calc, custom>>

\* "with _lock:" is entered once the lock is free
SessAcquire(t) ==
    /\ sess.pc[t] \in {"set_enter", "ready_enter", "get_enter",
                       "restore_enter"}
    /\ sess.lock = "free"
    /\ sess' = SessGoto(sess, t,
                        CASE sess.pc[t] = "set_enter"     -> "set_locked"
                          [] sess.pc[t] = "ready_enter"   -> "ready_locked"
                          [] sess.pc[t] = "get_enter"     -> "get_locked"
                          [] sess.pc[t] = "restore_enter" -> "restore_locked")
    /\ UNCHANGED <<clock, rows, nextId, meta, state, pc, loc, runs, retry,
                   main, sched_error, calc, custom>>

\* set_session: the two assignments to _state, the end of the with block
SetSessionWrite(t) ==
    /\ sess.pc[t] = "set_locked"
    /\ state' = SetState(sess.token[t], sess.expiry[t])
    /\ sess' = SessGoto(sess, t, "set_persist")
    /\ UNCHANGED <<clock, rows, nextId, meta, pc, loc, runs, retry, main,
                   sched_error, calc, custom>>

\* set_session: persist_session(token, expiry_date) commits and returns
SetSessionPersist(t) ==
    /\ sess.pc[t] = "set_persist"
    /\ meta' = PersistSession(meta, sess.token[t], sess.expiry[t])
    /\ sess' = SessGoto(sess, t, "idle")
    /\ UNCHANGED <<clock, rows, nextId, state, pc, loc, runs, retry, main,
                   sched_error, calc, custom>>

\* set_session: persist_session raises; "except Exception: pass"
SetSessionPersistFail(t) ==
    /\ sess.pc[t] = "set_persist"
    /\ sess' = SessGoto(sess, t, "idle")
    /\ UNCHANGED <<clock, rows, nextId, meta, state, pc, loc, runs, retry,
                   main, sched_error, calc, custom>>

\* session_ready: return bool(_state.get("expiry_date")); scheduled_fetch
\* returns on False and calls get_session() on True
SessionReadyRead(t) ==
    /\ sess.pc[t] = "ready_locked"
    /\ sess' = SessGoto([sess EXCEPT !.ready = SessionReady(state)], t,
                        IF SessionReady(state) THEN "get_enter" ELSE "idle")
    /\ UNCHANGED <<clock, rows, nextId, meta, state, pc, loc, runs, retry,
                   main, sched_error, calc, custom>>

\* get_session: return _state.copy()
GetSessionRead(t) ==
    /\ sess.pc[t] = "get_locked"
    /\ sess' = SessGoto([sess EXCEPT !.saved[t] = state], t, "idle")
    /\ UNCHANGED <<clock, rows, nextId, meta, state, pc, loc, runs, retry,
                   main, sched_error, calc, custom>>

\* restore_session_from_db: saved = load_persisted_session() and
\* "if saved.get('expiry_date')"; on False the function returns and
\* "__main__" starts the scheduler and the server
RestoreLoad ==
    /\ sess.pc["main"] = "restore_load"
    /\ LET saved == LoadPersisted(meta)
       IN  sess' = SessGoto([sess EXCEPT !.saved["main"] = saved], "main",
                            IF Truthy(saved.expiry_date) THEN "restore_enter"
                            ELSE "serving")
    /\ UNCHANGED <<clock, rows, nextId, meta, state, pc, loc, runs, retry,
                   main, sched_error, calc, custom>>

\* restore_session_from_db: load_persisted_session raises;
\* "except Exception: pass", return False
RestoreLoadFail ==
    /\ sess.pc["main"] = "restore_load"
    /\ sess' = SessGoto(sess, "main", "serving")
    /\ UNCHANGED <<clock, rows, nextId, meta, state, pc, loc, runs, retry,
                   main, sched_error, calc, custom>>

\* restore_session_from_db: the two assignments to _state, return True
RestoreWrite ==
    /\ sess.pc["main"] = "restore_locked"
    /\ state' = sess.saved["main"]
    /\ sess' = SessGoto(sess, "main", "serving")
    /\ UNCHANGED <<clock, rows, nextId, meta, pc, loc, runs, retry, main,
                   sched_error, calc, custom>>

\* the process dies and is started again on the same database: its
\* threads, _lock and _state are those of a new process
SessRestart ==
    /\ sess.pc["main"] = "serving"
    /\ state' = [token |-> None, expiry_date |-> None]
    /\ sess' = [NoSess EXCEPT !.pc["main"] = "restore_load"]
    /\ UNCHANGED <<clock, rows, nextId, meta, pc, loc, runs, retry, main,
                   sched_error, calc, custom>>

NextSession ==
    \/ RestoreLoad
    \/ RestoreLoadFail
    \/ RestoreWrite
    \/ SessRestart
    \/ \E t \in SessThreads :
          \/ \E a \in SessionArgs : SetSessionCall(t, a)
          \/ SessionReadyCall(t)
          \/ SessAcquire(t)
          \/ SetSessionWrite(t)
          \/ SetSessionPersist(t)
          \/ SetSessionPersistFail(t)
          \/ SessionReadyRead(t)
          \/ GetSessionRead(t)

SpecSession == InitSession /\ [][NextSession]_vars

(***************************************************************************)
(* Properties                                                               *)
(***************************************************************************)
\* thread t takes the step that leaves label
Leaves(t, label) == pc[t] = label /\ pc'[t] # label

\* thread t returns from save_snapshot
SaveReturns(t) == InSave(t) /\ pc'[t] = "done"

\* the rows of rs whose timestamp lies in the UTC minute of the instant now
SameMinute(rs, now) == {r \in rs : r.timestamp \div 60 = now \div 60}

\* C1: under any interleaving of timer and request saves the store holds at
\* most one row per UTC minute bucket.
C1_OneRowPerMinute ==
    \A r, q \in rows :
        r.timestamp \div 60 = q.timestamp \div 60 => r = q

\* C2: a save_snapshot call that runs alone, at a time whose minute bucket
\* already holds a row, writes nothing, leaves the table as it found it and
\* returns that row's id, timestamp and date with already_existed = TRUE.
C2_SaveIsIdempotent ==
    [][\A t \in Threads :
          (SaveReturns(t) /\ SameMinute(loc'[t].entry, loc'[t].now) # {}) =>
              /\ rows' = loc'[t].entry
              /\ loc'[t].res.already_existed
              /\ \E e \in SameMinute(loc'[t].entry, loc'[t].now) :
                    /\ loc'[t].res.id = e.id
                    /\ loc'[t].res.timestamp = e.timestamp
                    /\ loc'[t].res.date = e.date]_vars

\* C3: a save_snapshot call that runs alone, at a time whose minute bucket
\* holds no row, inserts exactly one row and returns already_existed = FALSE;
\* when the rows it found were written on the same day (in UTC and in
\* UTC+5:30) they are all kept, so two saves in different minutes of one day
\* leave two rows.
C3_SaveInsertsOnce ==
    [][\A t \in Threads :
          (SaveReturns(t) /\ SameMinute(loc'[t].entry, loc'[t].now) = {}) =>
              LET n     == loc'[t].now
                  found == loc'[t].entry
                  new   == {r \in rows' : r.id = loc'[t].res.id}
              IN  /\ ~loc'[t].res.already_existed
                  /\ Cardinality(new) = 1
                  /\ \A r \in new : r.timestamp = n /\ r \notin found
                  /\ rows' \subseteq found \cup new
                  /\ (\A e \in found :
                         /\ e.timestamp \div SecPerDay = n \div SecPerDay
                         /\ (e.timestamp + IST) \div SecPerDay
                               = (n + IST) \div SecPerDay)
                     => rows' = found \cup new]_vars

\* C4: the date of every stored row is the calendar day, in UTC+5:30, of the
\* instant the row was created.
C4_DateIsIstDay ==
    \A r \in rows : r.date = (r.timestamp + IST) \div SecPerDay

\* C5: at the start of every save_snapshot the snapshots are all deleted
\* when the store is non-empty and its greatest date differs from today's
\* date in UTC+5:30, and none is deleted otherwise; the delete comes before
\* the dedup lookup and the insert, which delete nothing.
C5_RolloverClears ==
    [][\A t \in Threads :
          /\ Leaves(t, "fetch") /\ InSave(t)' =>
                /\ rows' = rows
                /\ pc'[t] = "s_clear" <=>
                      \E r \in rows :
                          /\ \A q \in rows : q.date <= r.date
                          /\ r.date # (clock + IST) \div SecPerDay
                /\ pc'[t] # "s_clear" => pc'[t] = "s_now"
          /\ Leaves(t, "s_clear") => rows' = {} /\ pc'[t] = "s_now"
          /\ Leaves(t, "s_now") \/ Leaves(t, "s_insert") =>
                rows \subseteq rows']_vars

C5_Witness ==
    \E t \in Threads :
        /\ pc[t] = "s_now"
        /\ loc[t].old_cleared
        /\ loc[t].entry # {}
        /\ rows = {}

\* the identity the handlers build from an expiry and a token: the expiry
\* and "..." with the last four characters of a token longer than four, or
\* "env"
IdentityOf(expiry, token) ==
    <<"upstox|Nifty 50|">> \o expiry \o <<"|">> \o
       (IF Len(token) > 4
        THEN <<"...", token[Len(token) - 3], token[Len(token) - 2],
               token[Len(token) - 1], token[Len(token)]>>
        ELSE <<"env">>)

\* C6: check_and_clear_for_url_change deletes every snapshot, adopts the
\* given identity and returns TRUE when the stored identity it read is
\* non-empty and differs from the given one; it deletes nothing and returns
\* FALSE when the two are equal.  The identity differs when the expiry or the
\* masked token differs.
C6_IdentityChangeClears ==
    [][\A t \in Requests :
          Leaves(t, "u_write") =>
              LET new == IdentityOf(loc[t].expiry, loc[t].token)
              IN  /\ (loc[t].cur # <<>> /\ loc[t].cur # new) =>
                        /\ rows' = {}
                        /\ meta'.current_url = new
                        /\ loc'[t].was_cleared
                  /\ loc[t].cur = new =>
                        /\ rows' = rows
                        /\ ~loc'[t].was_cleared]_vars

C6_Witness ==
    \E t \in Requests :
        /\ loc[t].op = "connect"
        /\ pc[t] = "c_set"
        /\ loc[t].was_cleared
        /\ rows = {}
        /\ nextId > 1

\* C7: with no stored identity yet, check_and_clear_for_url_change adopts
\* the given identity, deletes nothing and returns FALSE; after every call
\* the stored identity is the one passed in.  The store starts with no
\* identity.
C7_FirstIdentityAdopted ==
    /\ meta.current_url = <<>>
    /\ [][\A t \in Requests :
             Leaves(t, "u_write") =>
                 /\ meta'.current_url = IdentityOf(loc[t].expiry, loc[t].token)
                 /\ loc[t].cur = <<>> =>
                       rows' = rows /\ ~loc'[t].was_cleared]_vars

C7_Witness ==
    \E t \in Requests :
        /\ pc[t] = "p_minute"
        /\ loc[t].cur = <<>>
        /\ ~loc[t].was_cleared
        /\ rows # {}
        /\ meta.current_url = IdentityOf(loc[t].expiry, loc[t].token)

\* the instant t, in UTC+5:30, is on a weekday from 09:14 to 15:31 inclusive
InTradingWindow(t) ==
    LET ist == t + 5 * 3600 + 30 * 60
        day == (ist \div 86400) % 7
        hm  == (ist % 86400) \div 60
    IN  /\ day \notin {5, 6}
        /\ hm >= 9 * 60 + 14
        /\ hm <= 15 * 60 + 31

\* C8: a timer trigger outside the weekday window 09:14-15:31 (UTC+5:30)
\* ends at the gate: it fetches nothing and writes no row; inside the window,
\* both ends included, it passes the gate.
C8_MarketHoursGate ==
    [][Leaves(Timer, "idle") =>
          IF InTradingWindow(clock)
          THEN pc'[Timer] = "t_ready"
          ELSE /\ pc'[Timer] = "done"
               /\ loc'[Timer].status = "skip_hours"
               /\ rows' = rows]_vars

C8_Witness ==
    /\ pc[Timer] = "done"
    /\ loc[Timer].status = "skip_hours"
    /\ clock = At(0, 10, 2, 0)

\* C9: a poll request with a non-empty expiry is never stopped by the time
\* of day or the day of the week: it reaches the cache test, and when no
\* snapshot lies in its current minute bucket it goes on to the vendor fetch.
C9_PollNotGated ==
    [][\A t \in Requests :
          loc[t].op = "process" =>
              /\ Leaves(t, "persist") => pc'[t] = "u_select"
              /\ Leaves(t, "u_select") => pc'[t] = "u_write"
              /\ Leaves(t, "u_write") => pc'[t] = "p_minute"
              /\ Leaves(t, "p_minute") => pc'[t] = "p_latest"
              /\ (Leaves(t, "p_latest")
                    /\ \A r \in rows : r.timestamp \div 60 # loc[t].minute)
                 => pc'[t] = "fetch"]_vars

C9_Witness ==
    \E t \in Requests :
        /\ pc[t] = "fetch"
        /\ loc[t].op = "process"
        /\ clock = At(5, 4, 15, 0)
        /\ rows # {}

\* C10: while no expiry is configured (no request has set the session) the
\* timer is neither fetching nor saving, and a timer trigger that reaches the
\* session gate ends there.
C10_SessionGate ==
    state.expiry_date = None =>
        /\ pc[Timer] \in {"idle", "t_ready", "done"}
        /\ pc[Timer] = "done" =>
              loc[Timer].status \in {"skip_hours", "skip_session"}
        /\ \A t \in Requests : pc[t] \in {"idle", "done", "u_write", "c_set"}

C10_Witness ==
    /\ pc[Timer] = "done"
    /\ loc[Timer].status = "skip_session"
    /\ InTradingWindow(clock)
    /\ state.expiry_date = None

\* C11: when a poll request reaches its cache test and the latest stored
\* snapshot lies in the minute bucket the request read as current, the
\* request ends there with that row's values: it never reaches the vendor
\* fetch and it writes no snapshot row.
C11_CacheHitServesStoredRow ==
    [][\A t \in Requests :
          (/\ Leaves(t, "p_latest")
           /\ \E r \in rows :
                 /\ \A q \in rows : q.timestamp <= r.timestamp
                 /\ r.timestamp \div 60 = loc[t].minute)
          => /\ pc'[t] = "done"
             /\ loc'[t].status = "cached"
             /\ rows' = rows
             /\ nextId' = nextId
             /\ \E r \in rows :
                   /\ \A q \in rows : q.timestamp <= r.timestamp
                   /\ loc'[t].res.id = r.id
                   /\ loc'[t].res.timestamp = r.timestamp
                   /\ loc'[t].res.date = r.date]_vars

C11_Witness ==
    \E t \in Requests :
        /\ pc[t] = "done"
        /\ loc[t].op = "process"
        /\ loc[t].status = "cached"
        /\ \E r \in rows : r.id = loc[t].res.id /\ r.timestamp \div 60 = clock \div 60

\* C12: a timer execution that has passed the market-hours gate and the
\* session gate while the store holds a snapshot in the current minute bucket
\* reuses that snapshot: it does not go on to the vendor fetch.
C12_TimerReusesSnapshot ==
    [][(/\ Leaves(Timer, "t_ready")
        /\ \E r \in rows : r.timestamp \div 60 = clock \div 60)
       => pc'[Timer] # "fetch"]_vars

\* C13: fetch_with_retry calls fn at most 5 times; a value comes out only
\* from the first call that returns, with no call and no wait after it; an
\* exception comes out only when all 5 calls have failed, and it is the
\* exception of the 5th call, so a failure carrying a retry-after hint is not
\* surfaced before the retries are exhausted.
C13_RetryAtMostFive ==
    /\ retry.calls <= 5
    /\ retry.pc = "returned" =>
          /\ retry.result = retry.calls
          /\ ~retry.fn[retry.result].raised
          /\ \A k \in 1 .. retry.result - 1 : retry.fn[k].raised
          /\ Len(retry.waits) = retry.calls - 1
    /\ retry.pc = "raised" =>
          /\ retry.calls = 5
          /\ retry.result = 5
          /\ \A k \in 1 .. 5 : retry.fn[k].raised
          /\ Len(retry.waits) = 4

C13_Witness ==
    /\ retry.pc = "raised"
    /\ retry.fn[5].has_hint
    /\ \E k \in 1 .. 4 : ~retry.fn[k].has_hint

\* C14: every failure of the futures-quote block of a poll request (master
\* file absent, no active contract, vendor error, retries exhausted) leaves
\* no futures values; the request then still runs save_snapshot, the row it
\* inserts has its futures fields at 0, a row with the returned id is in the
\* store, and the request answers 200.
C14_FuturesFailureNonFatal ==
    /\ \A o \in {"no_file", "no_contract", "vendor_error", "exhausted"} :
          o \in FutOutcomes /\ FutInd(o) = 0
    /\ [][\A t \in Requests :
             (loc[t].op = "process" /\ loc[t].fut = 0 /\ SaveReturns(t)) =>
                 /\ loc'[t].status = "200"
                 /\ \E r \in rows' : r.id = loc'[t].res.id
                 /\ Leaves(t, "s_insert") =>
                       \E r \in rows' \ rows :
                           /\ rows' = rows \cup {r}
                           /\ r.id = loc'[t].res.id
                           /\ r.timestamp = loc[t].now
                           /\ r.fut = 0]_vars

C14_Witness ==
    \E t \in Requests :
        /\ pc[t] = "done"
        /\ loc[t].op = "process"
        /\ loc[t].fut = 0
        /\ loc[t].status = "200"
        /\ ~loc[t].res.already_existed
        /\ \E r \in rows : r.id = loc[t].res.id /\ r.fut = 0
        /\ \E r \in rows : r.fut = 1

\* C15: a failure of the vendor fetch, of the aggregation or of a store
\* write inside a timer execution is caught and logged, and the execution
\* returns: scheduled_fetch never ends by raising.  After a failed execution
\* the timer is idle again and its next execution can start.
C15_TimerSurvivesFailure ==
    /\ [][(/\ pc[Timer] \in {"fetch", "s_clear", "s_insert"}
           /\ loc'[Timer].exc # "none")
          => /\ pc'[Timer] = "done"
             /\ loc'[Timer].status = "error"
             /\ sched_error'
             /\ rows' = rows]_vars
    /\ [][Leaves(Timer, "done") /\ main' = "run" => pc'[Timer] = "idle"]_vars
    /\ [](pc[Timer] = "done" =>
             loc[Timer].status \in
                {"skip_hours", "skip_session", "error", "dedup", "saved"})
    /\ []((/\ sched_error
           /\ pc[Timer] = "idle"
           /\ Settled
           /\ main = "run"
           /\ runs < MaxRuns)
          => ENABLED TimerGate(Timer))

C15_Witness ==
    /\ sched_error
    /\ pc[Timer] = "fetch"
    /\ main = "run"
    /\ InTradingWindow(clock)

\* the value of a body key is missing, null, empty or made of spaces only
Blank(v) == v = None \/ \A i \in 1 .. Len(v) : v[i] = " "

\* C16: a connect or poll request whose expiry_date is missing or blank is
\* answered 400 at once: the in-memory session, the persisted session, the
\* stored source identity and the snapshots are unchanged and no vendor fetch
\* is made.
C16_BlankExpiryRejected ==
    [][\A t \in Requests :
          (Leaves(t, "idle") /\ Blank(loc'[t].body.expiry_date)) =>
              /\ pc'[t] = "done"
              /\ loc'[t].status = "400"
              /\ state' = state
              /\ meta' = meta
              /\ rows' = rows
              /\ nextId' = nextId]_vars

C16_Witness ==
    \E t \in Requests :
        /\ pc[t] = "done"
        /\ loc[t].op = "process"
        /\ loc[t].status = "400"
        /\ loc[t].body.expiry_date = None
        /\ state.expiry_date = ExpA
        /\ meta.session_expiry_date = ExpA
        /\ rows # {}

\* C17: when a poll request ends on an exception, the answer is 400 if the
\* exception is the rejection of the vendor payload (status not success, or
\* rows malformed) and 500 for every other exception raised by the source
\* check, the fetch, the aggregation or the store; in both cases the request
\* has written no snapshot row.
C17_PollErrorMapping ==
    [][\A t \in Requests :
          (/\ loc[t].op = "process"
           /\ Leaves(t, pc[t])
           /\ loc'[t].exc # "none")
          => /\ pc'[t] = "done"
             /\ loc'[t].exc = "bad_payload" => loc'[t].status = "400"
             /\ loc'[t].exc # "bad_payload" => loc'[t].status = "500"
             /\ rows' \subseteq rows
             /\ nextId' = nextId]_vars

\* thread t takes the step that leaves label, in a process that lives on
Steps(t, label) == Leaves(t, label) /\ main' = main

\* C18: whatever set_session and restore_session_from_db calls came before,
\* session_ready() is true exactly when the in-memory expiry_date is set,
\* with or without a token: the timer passes its session gate in that case
\* and ends there otherwise.  The in-memory expiry_date is never the empty
\* string.
C18_ReadyIffExpiry ==
    /\ [](state.expiry_date # <<>>)
    /\ [][Steps(Timer, "t_ready") =>
             IF state.expiry_date # None
             THEN pc'[Timer] = "fetch"
             ELSE /\ pc'[Timer] = "done"
                  /\ loc'[Timer].status = "skip_session"]_vars

C18_Witness ==
    /\ pc[Timer] = "fetch"
    /\ state = [token |-> None, expiry_date |-> ExpB]
    /\ loc[Timer].token = None
    /\ meta.current_url = <<"upstox|Nifty 50|", "A", "|", "...", "b", "c", "d", "1">>
    /\ meta.session_expiry_date = ExpB

\* the step in which thread t runs the locked part of set_session
SetsSession(t) ==
    \/ Steps(t, "idle") /\ loc'[t].op = "process" /\ pc'[t] = "persist"
    \/ Steps(t, "c_set")

\* C19: set_session(token, expiry) replaces the in-memory session with
\* (token or None, expiry) whatever it held; the persist that follows either
\* stores (token or "", expiry) or fails and leaves the store as it was, and
\* in both cases the in-memory session keeps the new values and the handler
\* goes on as if nothing had failed.
C19_SetSessionOverwrites ==
    [][\A t \in Requests :
          /\ SetsSession(t) =>
                /\ state'.expiry_date = loc'[t].expiry
                /\ state'.token =
                      IF loc'[t].token = <<>> THEN None ELSE loc'[t].token
          /\ Steps(t, "persist") =>
                /\ state' = state
                /\ loc'[t].exc = "none"
                /\ IF loc[t].op = "connect"
                   THEN pc'[t] = "done" /\ loc'[t].status = "200"
                   ELSE pc'[t] = "u_select"
                /\ \/ meta' = meta
                   \/ meta' = [meta EXCEPT
                                  !.session_token = loc[t].token,
                                  !.session_expiry_date = loc[t].expiry]]_vars

C19_Witness ==
    \E t \in Requests :
        /\ pc[t] = "done"
        /\ loc[t].op = "connect"
        /\ loc[t].status = "200"
        /\ loc[t].expiry = ExpA
        /\ state = [token |-> TokA, expiry_date |-> ExpA]
        /\ meta.session_expiry_date = ExpB

\* C20: a persist of set_session(token, expiry) that changes the store leaves
\* (token or "", expiry) in it, with a non-empty expiry.  When the process is
\* started again on a store that holds such a session,
\* restore_session_from_db() returns TRUE and the in-memory session is
\* (token or None, expiry); it returns FALSE and leaves the session unset
\* otherwise.  No timer execution and no request starts before it has run,
\* so after a TRUE result the session gate is open at the first tick.
C20_RestartRoundTrip ==
    /\ [][\A t \in Requests :
             (Steps(t, "persist") /\ meta' # meta) =>
                 /\ loc[t].expiry # <<>>
                 /\ meta' = [meta EXCEPT
                                !.session_token = loc[t].token,
                                !.session_expiry_date = loc[t].expiry]]_vars
    /\ [][Leaves(Timer, "idle") \/ (\E t \in Requests : Leaves(t, "idle"))
             => main = "run"]_vars
    /\ [](main = "restored" =>
             state.expiry_date # None /\ state.expiry_date # <<>>)
    /\ [][main = "init" /\ main' # "init" =>
             IF meta.session_expiry_date # <<>>
             THEN /\ main' = "restored"
                  /\ state'.expiry_date = meta.session_expiry_date
                  /\ state'.token = IF meta.session_token = <<>> THEN None
                                    ELSE meta.session_token
             ELSE /\ main' = "no_session"
                  /\ state' = [token |-> None, expiry_date |-> None]]_vars

C20_Witness ==
    /\ main = "restored"
    /\ state = [token |-> None, expiry_date |-> ExpB]
    /\ meta.session_token = <<>>
    /\ nextId = 1
    /\ runs = 1

\* calculate_indicators has returned
Returned == calc.fn = "calculate_indicators" /\ calc.pc = "returned"

\* ratio is call / put, or 0 when put is 0
IsRatio(ratio, call, put) ==
    IF put = 0 THEN ratio.num = 0 /\ ratio.den # 0
    ELSE ratio.den # 0 /\ ratio.num * put = ratio.den * call

\* C21: in every result of calculate_indicators, diff_oi_value and
\* diff_oi_value_2 are the call total minus the put total of the unfiltered
\* and of the volume-filtered value-at-price totals, ratio_oi_value and
\* ratio_oi_value_2 are the call total divided by the put total, and 0 when
\* the put total is 0; diff_trade_value is the call trade value minus the
\* put trade value.
C21_DiffAndRatio ==
    Returned =>
        /\ calc.diff_oi_value
              = calc.tot.total_ce_oi_value - calc.tot.total_pe_oi_value
        /\ calc.diff_oi_value_2
              = calc.tot.total_ce_oi_value_2 - calc.tot.total_pe_oi_value_2
        /\ calc.diff_trade_value
              = calc.tot.total_ce_trade_value - calc.tot.total_pe_trade_value
        /\ IsRatio(calc.ratio_oi_value, calc.tot.total_ce_oi_value,
                   calc.tot.total_pe_oi_value)
        /\ IsRatio(calc.ratio_oi_value_2, calc.tot.total_ce_oi_value_2,
                   calc.tot.total_pe_oi_value_2)

C21_Witness ==
    /\ Returned
    /\ calc.tot.total_ce_oi_value = 24
    /\ calc.tot.total_pe_oi_value = 480
    /\ calc.ratio_oi_value = [num |-> 1, den |-> 20]
    /\ calc.tot.total_ce_oi_value_2 = 24
    /\ calc.tot.total_pe_oi_value_2 = 0
    /\ calc.ratio_oi_value_2.num = 0
    /\ calc.diff_oi_value = 0 - 456

\* the number a field holds, a missing field counted as 0
NumOf(v) == IF v.kind = "int" THEN v.n ELSE 0

\* every field of the row is a number or is missing
PlainSide(side) ==
    /\ side.kind # "null"
    /\ \A v \in {side.md.oi, side.md.prev_oi, side.md.ltp, side.md.volume} :
          v.kind \in {"int", "missing"}

PlainRow(row) ==
    /\ row.underlying_spot_price.kind \in {"int", "missing"}
    /\ PlainSide(row.call_options)
    /\ PlainSide(row.put_options)

PlainRows(rs) == \A k \in 1 .. Len(rs) : PlainRow(rs[k])

\* f[1] + ... + f[n]
RECURSIVE SumTo(_, _)
SumTo(f, n) == IF n = 0 THEN 0 ELSE f[n] + SumTo(f, n - 1)

\* the sum over the rows of oi, oi - prev_oi, volume, oi * ltp,
\* (oi - prev_oi) * ltp and volume * ltp of one side
SideSums(rs, side) ==
    LET n == Len(rs)
        oi(k)   == NumOf(rs[k][side].md.oi)
        prev(k) == NumOf(rs[k][side].md.prev_oi)
        ltp(k)  == NumOf(rs[k][side].md.ltp)
        vol(k)  == NumOf(rs[k][side].md.volume)
    IN  [ oi     |-> SumTo([k \in 1 .. n |-> oi(k)], n),
          chg    |-> SumTo([k \in 1 .. n |-> oi(k) - prev(k)], n),
          vol    |-> SumTo([k \in 1 .. n |-> vol(k)], n),
          oi_value |-> SumTo([k \in 1 .. n |-> oi(k) * ltp(k)], n),
          oi_change_value |->
              SumTo([k \in 1 .. n |-> (oi(k) - prev(k)) * ltp(k)], n),
          trade_value |-> SumTo([k \in 1 .. n |-> vol(k) * ltp(k)], n),
          oi_value_2 |->
              SumTo([k \in 1 .. n |->
                        IF vol(k) > 0 THEN oi(k) * ltp(k) ELSE 0], n) ]

\* the two-strike payload: call OI {100, 50}, previous OI {90, 50}, price
\* {10, 8}; put OI {40, 60}, previous OI {50, 60}, price {12, 9}
TwoStrikes ==
    << Row(Missing, Side(Md(Num(100), Num(90), Num(10), Missing)),
                    Side(Md(Num(40), Num(50), Num(12), Missing))),
       Row(Missing, Side(Md(Num(50), Num(50), Num(8), Missing)),
                    Side(Md(Num(60), Num(60), Num(9), Missing))) >>

\* C22: in every result of calculate_indicators over rows whose fields are
\* numbers or missing, the totals of each side are the sums over all rows of
\* oi, oi - prev_oi, volume, oi * ltp, (oi - prev_oi) * ltp and
\* volume * ltp, a missing field counted as 0; an empty list gives zeros;
\* the two-strike payload gives total_ce_oi_value = 1400,
\* total_pe_oi_value = 1020, diff_oi_value = 380 and
\* total_ce_oi_change_value = 100.
C22_TotalsAreSums ==
    /\ (Returned /\ PlainRows(calc.api_response.rows)) =>
          LET ce == SideSums(calc.api_response.rows, "call_options")
              pe == SideSums(calc.api_response.rows, "put_options")
              t  == calc.tot
          IN  /\ t.total_ce_oi = ce.oi /\ t.total_pe_oi = pe.oi
              /\ t.total_ce_chg = ce.chg /\ t.total_pe_chg = pe.chg
              /\ t.total_ce_vol = ce.vol /\ t.total_pe_vol = pe.vol
              /\ t.total_ce_oi_value = ce.oi_value
              /\ t.total_pe_oi_value = pe.oi_value
              /\ t.total_ce_oi_change_value = ce.oi_change_value
              /\ t.total_pe_oi_change_value = pe.oi_change_value
              /\ t.total_ce_trade_value = ce.trade_value
              /\ t.total_pe_trade_value = pe.trade_value
    /\ (Returned /\ calc.api_response.rows = <<>>) =>
          \A k \in DOMAIN calc.tot : calc.tot[k] = 0
    /\ (Returned /\ calc.api_response.rows = TwoStrikes) =>
          /\ calc.tot.total_ce_oi_value = 1400
          /\ calc.tot.total_pe_oi_value = 1020
          /\ calc.diff_oi_value = 380
          /\ calc.tot.total_ce_oi_change_value = 100

C22_Witness ==
    /\ Returned
    /\ calc.api_response.rows = TwoStrikes
    /\ calc.tot.total_ce_oi_change_value = 100
    /\ calc.tot.total_pe_oi_change_value = 0 - 120
    /\ calc.ratio_oi_value = [num |-> 70, den |-> 51]

\* C23: in every result of calculate_indicators over rows whose fields are
\* numbers or missing, total_ce_oi_value_2 is the sum of oi * ltp over the
\* rows whose call volume is greater than 0 and total_pe_oi_value_2 the sum
\* over the rows whose put volume is greater than 0, each side by its own
\* volume; the two are fields of their own beside the unfiltered totals.
C23_VolumeFilteredTotals ==
    (Returned /\ PlainRows(calc.api_response.rows)) =>
        /\ calc.tot.total_ce_oi_value_2
              = SideSums(calc.api_response.rows, "call_options").oi_value_2
        /\ calc.tot.total_pe_oi_value_2
              = SideSums(calc.api_response.rows, "put_options").oi_value_2
        /\ {"total_ce_oi_value", "total_ce_oi_value_2", "total_pe_oi_value",
            "total_pe_oi_value_2"} \subseteq DOMAIN calc.tot

C23_Witness ==
    /\ Returned
    /\ Len(calc.api_response.rows) = 1
    /\ calc.api_response.rows[1].call_options.md.volume = Num(0)
    /\ calc.api_response.rows[1].put_options.md.volume = Num(7)
    /\ calc.tot.total_ce_oi_value = 6
    /\ calc.tot.total_ce_oi_value_2 = 0
    /\ calc.tot.total_pe_oi_value_2 = 12

\* every row keeps a mapping (or nothing) where its two sides are expected
SidesAreMappings(rs) ==
    \A k \in 1 .. Len(rs) :
        rs[k].call_options.kind # "null" /\ rs[k].put_options.kind # "null"

\* C24: calculate_indicators ends with a ValueError when the status of the
\* payload is not "success" or when its data is not a list, and the caller
\* then stores no snapshot; for a success payload whose data is a list of
\* rows it returns a result and raises nothing.
C24_DomainErrors ==
    (calc.fn = "calculate_indicators" /\ calc.pc \notin {"call", "loop"}) =>
        IF \/ calc.api_response.status # "success"
           \/ calc.api_response.data \in {"null", "dict", "str"}
        THEN /\ calc.pc = "raised"
             /\ calc.exc = "ValueError"
             /\ rows = {}
        ELSE SidesAreMappings(calc.api_response.rows) =>
                calc.pc = "returned"

NotANumber(s) == \E k \in 1 .. Len(s) : s[k] \notin
    {"0", "1", "2", "3", "4", "5", "6", "7", "8", "9", " ", "-"}

\* C26: _safe_float(val, default) never raises; it returns default for
\* null, for a text that is no number, for a list or a mapping and for an
\* integer too large for a float, and the number itself for a number.
C26_SafeFloatNeverRaises ==
    (calc.fn = "_safe_float" /\ calc.pc # "call") =>
        /\ calc.pc = "returned"
        /\ calc.val.kind = "int" => calc.ret = calc.val.n
        /\ (\/ calc.val.kind \in {"null", "list", "dict", "huge"}
            \/ calc.val.kind = "str" /\ NotANumber(calc.val.s))
           => calc.ret = calc.default

\* C27: a snapshot row, once inserted, is never modified; rows leave the
\* store only all together, never a strict subset of them; and the store is
\* emptied only by a save when the day, in UTC+5:30, has changed since a
\* stored row was created, or by a connect or poll request whose source
\* identity differs from the stored one.
C27_SnapshotLifecycle ==
    [][/\ \A r \in rows : \A q \in rows' : q.id = r.id => q = r
       /\ rows \subseteq rows' \/ rows' = {}
       /\ ~(rows \subseteq rows') =>
             \E t \in Threads :
                 \/ /\ Leaves(t, "s_clear")
                    /\ \E r \in rows :
                          (r.timestamp + IST) \div SecPerDay
                             # (clock + IST) \div SecPerDay
                 \/ /\ Leaves(t, "u_write")
                    /\ loc[t].op \in {"connect", "process"}
                    /\ loc[t].cur # <<>>
                    /\ loc[t].cur # IdentityOf(loc[t].expiry, loc[t].token)
      ]_vars

\* the text of a body key without the blanks around it
Trimmed(v) == IF v = None THEN <<>> ELSE Strip(v)

\* C28: no two custom indicators have the same name, and none the same id,
\* after any sequence of upserts and deletes.  An upsert whose trimmed name
\* is already stored replaces that row's formula, keeps its id and every
\* other row, and leaves the number of rows unchanged; an upsert with a new
\* name adds exactly one row; a delete answers true exactly when a row with
\* the given id was stored, and removes that row only.
C28_IndicatorsUniqueByName ==
    /\ \A r, q \in custom.table : (r.name = q.name \/ r.id = q.id) => r = q
    /\ (custom.op = "create" /\ custom.status = "200") =>
          LET n   == Trimmed(custom.body.name)
              f   == Trimmed(custom.body.formula)
              old == {r \in custom.before : r.name = n}
          IN  /\ custom.row = [id |-> custom.row.id, name |-> n, formula |-> f]
              /\ custom.row \in custom.table
              /\ custom.table \ {custom.row} = custom.before \ old
              /\ IF old # {}
                 THEN /\ \A r \in old : r.id = custom.row.id
                      /\ Cardinality(custom.table)
                            = Cardinality(custom.before)
                 ELSE /\ \A r \in custom.before : r.id # custom.row.id
                      /\ Cardinality(custom.table)
                            = Cardinality(custom.before) + 1
    /\ (custom.op = "remove" /\ custom.status = "200") =>
          /\ custom.deleted <=> \E r \in custom.before : r.id = custom.ind_id
          /\ custom.table = {r \in custom.before : r.id # custom.ind_id}
    /\ custom.status \in {"400", "500"} => custom.table = custom.before

C28_Witness ==
    /\ custom.op = "create"
    /\ custom.status = "200"
    /\ custom.body = [name |-> <<" ", "a", " ">>, formula |-> <<"y", " ">>]
    /\ custom.row = [id |-> 1, name |-> <<"a">>, formula |-> <<"y">>]
    /\ [id |-> 1, name |-> <<"a">>, formula |-> <<"x">>] \in custom.before
    /\ Cardinality(custom.table) = 2

\* C29: the rollover check with its delete, the minute-bucket lookup and the
\* insert of one save are a single transaction: from the rollover check of a
\* save to its return, no step of another thread changes the snapshots.
C29_SaveIsOneTransaction ==
    [][\A t \in Threads :
          (InSave(t) /\ pc'[t] = pc[t]) => rows' = rows]_vars

\* C30: when all five attempts of fetch_with_retry fail without a
\* retry-after hint, the waits it has slept are 1, 2, 4, 8 and 16 seconds,
\* one per failed attempt and 31 seconds in all; the wait slept after a
\* failed attempt whose exception carries a hint of one second or more is
\* the hint, and 2 ^ (k - 1) seconds after a k-th attempt that carries none.
C30_BackoffSchedule ==
    /\ (retry.pc = "raised" /\ \A k \in 1 .. 5 : ~retry.fn[k].has_hint) =>
          /\ retry.waits = <<1, 2, 4, 8, 16>>
          /\ SumTo(retry.waits, Len(retry.waits)) = 31
    /\ \A k \in 1 .. Len(retry.waits) :
          IF retry.fn[k].has_hint /\ retry.fn[k].retry_after >= 1
          THEN retry.waits[k] = retry.fn[k].retry_after
          ELSE ~retry.fn[k].has_hint => retry.waits[k] = 2 ^ (k - 1)

\* C31: every poll execution ends within the retry budget: whatever the
\* attempts of a fetch do, with or without retry-after hints, the waits
\* slept between them add up to 31 seconds at most, less than the 60
\* seconds between two timer ticks.
C31_WaitsWithinBudget ==
    /\ SumTo(retry.waits, Len(retry.waits)) <= 31
    /\ SumTo(retry.waits, Len(retry.waits)) < 60

\* the first value of the sequence that is not 0, or 0
RECURSIVE FirstNonZero(_)
FirstNonZero(vals) ==
    IF vals = <<>> THEN 0
    ELSE IF Head(vals) # 0 THEN Head(vals)
    ELSE FirstNonZero(Tail(vals))

\* the spot price of a row as a number: 0 for a missing key and for a text
\* that is no number
SpotOf(row) == NumOf(row.underlying_spot_price)

\* C32: the underlying that calculate_indicators returns is the spot price
\* of the first row, in list order, whose spot price is not 0, and 0 when
\* no row has one; a later row with another spot price does not change it;
\* nifty_price equals underlying.
C32_UnderlyingFirstWins ==
    Returned =>
        LET rs == calc.api_response.rows
        IN  /\ calc.nifty_price = calc.underlying
            /\ (\A k \in 1 .. Len(rs) :
                    \/ rs[k].underlying_spot_price.kind \in {"int", "missing"}
                    \/ /\ rs[k].underlying_spot_price.kind = "str"
                       /\ NotANumber(rs[k].underlying_spot_price.s))
                => calc.underlying
                      = FirstNonZero([k \in 1 .. Len(rs) |-> SpotOf(rs[k])])

C32_Witness ==
    /\ Returned
    /\ Len(calc.api_response.rows) = 2
    /\ calc.api_response.rows[1].underlying_spot_price = Num(5)
    /\ calc.api_response.rows[2].underlying_spot_price = Num(9)
    /\ calc.underlying = 5
    /\ calc.nifty_price = 5

\* the thread is inside persist_session or load_persisted_session
InStoreCall(t) == sess.pc[t] \in {"set_persist", "restore_load"}

\* C33: the session lock is never held across an I/O call: a thread that
\* holds the lock is not reading or writing the metadata store (set_session
\* persists after releasing it, restore_session_from_db loads before
\* acquiring it), at most one thread is inside a with block, and a thread
\* waiting for the lock while it is free can take it whatever the store
\* calls of the other threads are doing.
C33_LockNotHeldAcrossIo ==
    /\ \A t \in SessThreads : sess.lock = t => ~InStoreCall(t)
    /\ \A t, u \in SessThreads :
          (InWith(sess.pc[t]) /\ InWith(sess.pc[u])) => t = u
    /\ \A t \in SessThreads :
          InWith(sess.pc[t]) <=> sess.lock = t
    /\ \A u \in SessThreads :
          (/\ sess.pc[u] \in {"ready_enter", "get_enter"}
           /\ \A t \in SessThreads : ~InWith(sess.pc[t]))
          => ENABLED SessAcquire(u)

C33_Witness ==
    /\ sess.pc["r1"] = "set_persist"
    /\ sess.pc["r2"] = "set_persist"
    /\ sess.lock = Timer
    /\ sess.pc[Timer] = "get_locked"

\* C34: once every connect and poll request has returned, and no persist
\* has failed, the session kept in the metadata store is the session in
\* memory: a restart restores the values of the last writer of _state.
C34_PersistedSessionIsCurrent ==
    (\A t \in Threads : pc[t] = "idle") => LoadPersisted(meta) = state

\* C35: whenever a poll request answers 200 after a fetch of its own, the
\* futures values of its response are those of the stored snapshot whose
\* id and timestamp the response carries, also when its save found a row
\* that the timer had written in the meantime (already_existed is true).
C35_ResponseIsStoredSnapshot ==
    \A t \in Requests :
        (pc[t] = "done" /\ loc[t].op = "process" /\ loc[t].status = "200") =>
            \E r \in rows :
                /\ r.id = loc[t].res.id
                /\ r.timestamp = loc[t].res.timestamp
                /\ r.fut = FutColumns(loc[t].fut)

\* C36: after a connect or poll request with a new expiry has changed the
\* source and cleared the store, no snapshot of a fetch made with the
\* previous expiry is stored: when the timer inserts a row while no request
\* is in flight and the stored source identity is that of the session in
\* memory, the expiry the timer fetched with is the expiry of that session.
C36_NoStaleSnapshotAfterChange ==
    [][(/\ pc[Timer] = "s_insert"
        /\ rows' # rows
        /\ \A r \in Requests : pc[r] = "idle"
        /\ meta.current_url
              = SourceIdentifier(state.expiry_date, OrEmpty(state.token)))
       => loc[Timer].expiry = state.expiry_date]_vars

\* C37: a timer tick that fires in minute M, passes both gates and whose
\* fetch succeeds leaves a snapshot in minute bucket M, the minute of the
\* tick and not of the moment the fetch finished.
C37_TickLeavesItsMinute ==
    (/\ pc[Timer] = "done"
     /\ loc[Timer].status \in {"saved", "dedup"})
    => \E r \in rows : BucketOfTs(r.timestamp) = loc[Timer].minute

\* C38: a save never deletes a snapshot written earlier on the same
\* UTC+5:30 calendar day: no step of save_snapshot, at any time of day and
\* under any interleaving of timer and request saves, removes a row that
\* was written in an earlier minute of the current UTC+5:30 day.
C38_SaveKeepsTodaysRows ==
    [][\A t \in Threads :
          (InSave(t) /\ pc'[t] # pc[t]) =>
              \A r \in rows :
                  (/\ TodayIst(r.timestamp) = TodayIst(clock)
                   /\ BucketOfTs(r.timestamp) < MinuteBucket(clock))
                  => r \in rows']_vars

\* the expiry inside a source identity "upstox|Nifty 50|<expiry>|<token>"
ExpiryIn(url) ==
    LET k == CHOOSE i \in 2 .. Len(url) :
                 url[i] = "|" /\ \A j \in 2 .. i - 1 : url[j] # "|"
    IN  SubSeq(url, 2, k - 1)

\* C39: once every connect and poll request in flight has completed, the
\* expiry inside the stored source identity is the expiry_date of the
\* session in memory, for every interleaving of requests that carry
\* different expiries.
C39_IdentityMatchesSession ==
    (/\ \A t \in Threads : pc[t] = "idle"
     /\ meta.current_url # <<>>)
    => ExpiryIn(meta.current_url) = state.expiry_date

\* C40: every snapshot the timer writes has its ten futures fields at 0;
\* a poll request whose cache test finds the latest snapshot in its current
\* minute is served that row without fetching a futures quote; so a row
\* with futures values other than 0 is one that a poll request inserted.
C40_FuturesOnlyFromPolls ==
    [][/\ (pc[Timer] = "s_insert" /\ pc'[Timer] = "done") =>
              \A r \in rows' \ rows : r.fut = 0
       /\ \A t \in Requests :
              (/\ pc[t] = "p_latest"
               /\ pc'[t] # "p_latest"
               /\ \E latest \in Latest(rows) :
                     BucketOfTs(latest.timestamp) = loc[t].minute)
              => /\ pc'[t] = "done"
                 /\ loc'[t].status = "cached"
                 /\ loc'[t].fut = 0
                 /\ \E r \in rows : /\ r.id = loc'[t].res.id
                                    /\ r.timestamp = loc'[t].res.timestamp
       /\ \A r \in rows' \ rows :
              r.fut # 0 =>
                  \E t \in Requests : /\ pc[t] = "s_insert"
                                      /\ pc'[t] = "done"
                                      /\ loc[t].op = "process"
                                      /\ loc[t].fut # 0
       /\ \A r \in rows : \A q \in rows' : q.id = r.id => q.fut = r.fut
      ]_vars

C40_Witness ==
    /\ pc[Timer] = "done"
    /\ loc[Timer].status = "saved"
    /\ \E r \in rows :
          /\ r.id = loc[Timer].res.id
          /\ r.fut = 0
          /\ \E t \in Requests :
                /\ pc[t] = "p_latest"
                /\ loc[t].op = "process"
                /\ loc[t].minute = BucketOfTs(r.timestamp)

====
